---- MODULE Spec2Model ----
(***************************************************************************)
(* A model of the Draw application, taken from the largest variant of the  *)
(* application source: the undo/redo history (class HistoryManager), the   *)
(* flood fill (class FloodFillEngine) with its colour comparison, and the  *)
(* handlers of the application (classes DrawingApp and StateManager) that  *)
(* save the canvas to the history and restore it.  Array indices are the   *)
(* 0-based indices of the JavaScript code: states[i] of the code is        *)
(* StateAt(states, i) here.                                                *)
(***************************************************************************)
EXTENDS Integers, Sequences, FiniteSets, TLC

VARIABLES
  states,        \* HistoryManager.states: the stored snapshots, oldest first
  currentIndex,  \* HistoryManager.currentIndex (0-based, -1 when empty)
  memoryUsage,   \* HistoryManager.memoryUsage: running total of bytes
  maxStates,     \* HistoryManager.maxStates: the constructor's argument
  nextId,        \* names the next snapshot or canvas content to be made
  lastCall,      \* the method called by the last step ("none": no call): its
                 \* name, argument and result
  fillArgs,      \* performFloodFill's arguments but the buffer
  data,          \* imageData.data: the bytes of the buffer being filled
  stack,         \* processFillStack's stack of pixels, top last
  boundingBox,   \* performFloodFill's boundingBox
  fillPc,        \* where performFloodFill is: "idle", "running", "returned"
  dataAtCall,    \* the buffer as it was when the running call began
  writes,        \* per pixel, how often the running call has overwritten it
  fillCalls,     \* calls of performFloodFill begun so far
  colorCheck,    \* one call of colorsEqual: its arguments and its result
  visible,       \* what the visible canvas shows (0: nothing; k: edit k on top)
  offscreen,     \* what the offscreen canvas holds
  offscreenDim,  \* width and height of the offscreen canvas
  drawing,       \* DrawingApp.drawing: a stroke is being drawn
  pendingStateSave,  \* StateManager.pendingStateSave
  stateSaveTimeout,  \* StateManager.stateSaveTimeout: a timer's id, 0 for null
  timers,        \* the ids of the running timers that call saveCanvasStateNow
  currentTool,   \* ToolManager.currentTool: "pen" or "fill"
  hidden,        \* document.hidden
  memoryCleanupTimeout, \* MemoryManager.memoryCleanupTimeout is a running timer
  undoBtnDisabled,   \* undoBtn.disabled
  redoBtnDisabled,   \* redoBtn.disabled
  lastUndoState,     \* StateManager.lastUndoState
  lastRedoState,     \* StateManager.lastRedoState
  lastHandler    \* the handler of the last step if it called the history or
                 \* made a fill ("none" otherwise), whether a save was pending
                 \* when it began, and its fill

historyVars == <<states, currentIndex, memoryUsage, maxStates, nextId, lastCall>>

fillVars ==
  <<fillArgs, data, stack, boundingBox, fillPc, dataAtCall, writes, fillCalls>>

canvasVars == <<visible, offscreen, offscreenDim>>

timerVars == <<pendingStateSave, stateSaveTimeout, timers>>

pageVars == <<currentTool, hidden, memoryCleanupTimeout>>

buttonVars == <<undoBtnDisabled, redoBtnDisabled, lastUndoState, lastRedoState>>

appVars == <<canvasVars, drawing, timerVars, pageVars, buttonVars, lastHandler>>

vars == <<historyVars, fillVars, colorCheck, appVars>>

\* What a step of one part of the program leaves alone.
notHistoryVars == <<fillVars, colorCheck, appVars>>
notFillVars == <<historyVars, colorCheck, appVars>>
notColorVars == <<historyVars, fillVars, appVars>>
notAppVars == <<fillVars, colorCheck>>

---------------------------------------------------------------------------
(* Bounds of the model *)

\* Snapshots that may be saved in one behaviour.
MaxSaves == 7

\* Largest maxStates a HistoryManager is constructed with (the application
\* passes none and gets HISTORY_MAX_STATES, 50).
MaxStatesArg == 6

\* How often one call of performFloodFill may overwrite the same pixel.
MaxWrites == 2

\* Calls of performFloodFill in one behaviour.
MaxFillCalls == 2

\* Pointer presses, painting pointer moves and clears in one behaviour.
MaxEdits == 2

\* Calls of saveState on a history that is nearly full by count.
MaxCountSaves == 3

\* Strokes drawn and saved before a behaviour of the application begins.
PriorStrokes == 6

---------------------------------------------------------------------------
(* Configuration constants (DrawingConfig.DEFAULTS) *)

HISTORY_MAX_STATES == 50

HISTORY_MAX_MEMORY_MB == 500

MIN_STATES_THRESHOLD == 10

BYTES_PER_MB == 1024 * 1024

FORCE_CLEANUP_STATE_COUNT == 5

\* The default of forceCleanup's parameter minStatesToKeep.
DEFAULT_MIN_STATES_TO_KEEP == 3

\* HistoryManager.maxMemoryUsage, set in the constructor.
maxMemoryUsage == HISTORY_MAX_MEMORY_MB * BYTES_PER_MB

---------------------------------------------------------------------------
(* Snapshots: an ImageData of width x height RGBA pixels.  id names the    *)
(* object (two snapshots of equal size are still different objects).       *)

\* Canvas sizes in device pixels: 50 MiB, 200 MiB and 510 MiB of RGBA data.
CanvasDims == { <<4096, 3200>>, <<8192, 6400>>, <<16384, 8160>> }

ImageData(id, dim) == [id |-> id, width |-> dim[1], height |-> dim[2]]

\* imageData.data.length: 4 bytes per pixel.
DataLength(imageData) == imageData.width * imageData.height * 4

calculateImageDataSize(imageData) == DataLength(imageData)

NoImage == [id |-> 0, width |-> 0, height |-> 0]

\* What a method returns: a stored snapshot, null, undefined (a read of an
\* array slot that does not exist) or nothing (a void method) or a number.
RetState(img) == [kind |-> "state", img |-> img, n |-> 0]
RetNull == [kind |-> "null", img |-> NoImage, n |-> 0]
RetUndefined == [kind |-> "undefined", img |-> NoImage, n |-> 0]
RetVoid == [kind |-> "void", img |-> NoImage, n |-> 0]
RetNumber(k) == [kind |-> "number", img |-> NoImage, n |-> k]

\* this.states[i] for a 0-based index i: undefined outside the array.
InRange(st, i) == i >= 0 /\ i < Len(st)
StateAt(st, i) == st[i + 1]
ReadSlot(st, i) == IF InRange(st, i) THEN RetState(StateAt(st, i)) ELSE RetUndefined

Min(a, b) == IF a < b THEN a ELSE b
Max(a, b) == IF a > b THEN a ELSE b

\* Array.prototype.splice(start) with one argument: a negative start counts
\* from the end, and the elements from there to the end are removed.
SpliceStart(len, start) == IF start < 0 THEN Max(len + start, 0) ELSE Min(start, len)
SpliceKept(st, start) == SubSeq(st, 1, SpliceStart(Len(st), start))
SpliceRemoved(st, start) == SubSeq(st, SpliceStart(Len(st), start) + 1, Len(st))

RECURSIVE SumSizes(_)
SumSizes(st) == IF st = <<>> THEN 0 ELSE calculateImageDataSize(Head(st)) + SumSizes(Tail(st))

---------------------------------------------------------------------------
(* The HistoryManager object as a record h, and its methods as operators   *)
(* from the object before the call to the object after it.                 *)

History(st, ci, mem) == [states |-> st, currentIndex |-> ci, memoryUsage |-> mem]

\* Mutant: the shift without the index adjustment.
ShiftOldest_KeepIndex(h) ==
  History(Tail(h.states),
          h.currentIndex,
          h.memoryUsage - calculateImageDataSize(Head(h.states)))

\* const removedState = this.states.shift();
\* this.memoryUsage -= this.calculateImageDataSize(removedState);
\* this.currentIndex--;
ShiftOldest(h) ==
  History(Tail(h.states),
          h.currentIndex - 1,
          h.memoryUsage - calculateImageDataSize(Head(h.states)))

\* Mutant: the redo branch is not spliced off.
PruneRedoBranch_KeepBranch(h) == h

\* saveState, first part: the redo branch is spliced off.
PruneRedoBranch(h) ==
  IF h.currentIndex < Len(h.states) - 1
  THEN History(SpliceKept(h.states, h.currentIndex + 1),
               h.currentIndex,
               h.memoryUsage - SumSizes(SpliceRemoved(h.states, h.currentIndex + 1)))
  ELSE h

\* Mutant: an if in place of the while, so at most one state is evicted.
trimOldStates_Once(h, requiredSize) ==
  IF Len(h.states) > 2 /\ h.memoryUsage + requiredSize > maxMemoryUsage
  THEN ShiftOldest(h)
  ELSE h

\* Mutant: the floor of 2 states lowered to 1.
RECURSIVE trimOldStates_KeepOne(_, _)
trimOldStates_KeepOne(h, requiredSize) ==
  IF Len(h.states) > 1 /\ h.memoryUsage + requiredSize > maxMemoryUsage
  THEN trimOldStates_KeepOne(ShiftOldest(h), requiredSize)
  ELSE h

\* Mutant: >= in place of > in the memory test of the loop.
RECURSIVE trimOldStates_EvictOnEqual(_, _)
trimOldStates_EvictOnEqual(h, requiredSize) ==
  IF Len(h.states) > 2 /\ h.memoryUsage + requiredSize >= maxMemoryUsage
  THEN trimOldStates_EvictOnEqual(ShiftOldest(h), requiredSize)
  ELSE h

RECURSIVE trimOldStates(_, _)
trimOldStates(h, requiredSize) ==
  IF Len(h.states) > 2 /\ h.memoryUsage + requiredSize > maxMemoryUsage
  THEN trimOldStates(ShiftOldest(h), requiredSize)
  ELSE h

\* saveState, second part: the memory check before the push.
TrimForMemory(h, stateSize) ==
  IF h.memoryUsage + stateSize > maxMemoryUsage
  THEN trimOldStates(h, stateSize)
  ELSE h

\* Mutant: the push without the update of memoryUsage.
PushState_KeepMemory(h, imageData) ==
  History(Append(h.states, imageData), h.currentIndex + 1, h.memoryUsage)

\* saveState, third part: the push.
PushState(h, imageData) ==
  History(Append(h.states, imageData),
          h.currentIndex + 1,
          h.memoryUsage + calculateImageDataSize(imageData))

\* Mutant: the Math.min with maxStates left out.
effectiveMaxStates_NoMin(max, stateSize) ==
  Max(MIN_STATES_THRESHOLD, maxMemoryUsage \div stateSize)

effectiveMaxStates(max, stateSize) ==
  Min(max, Max(MIN_STATES_THRESHOLD, maxMemoryUsage \div stateSize))

\* Mutant: a while in place of the if, so states are evicted down to the cap.
RECURSIVE EnforceMaxStates_While(_, _, _)
EnforceMaxStates_While(h, max, stateSize) ==
  IF Len(h.states) > effectiveMaxStates(max, stateSize)
  THEN EnforceMaxStates_While(ShiftOldest(h), max, stateSize)
  ELSE h

\* saveState, last part: the count cap evicts at most one state.
EnforceMaxStates(h, max, stateSize) ==
  IF Len(h.states) > effectiveMaxStates(max, stateSize)
  THEN ShiftOldest(h)
  ELSE h

SaveStateResult(h, max, imageData) ==
  LET stateSize == calculateImageDataSize(imageData)
      pruned    == PruneRedoBranch(h)
      trimmed   == TrimForMemory(pruned, stateSize)
      pushed    == PushState(trimmed, imageData)
  IN  EnforceMaxStates(pushed, max, stateSize)

\* Mutant: >= in place of >.
canUndoOf_FromZero(h) == h.currentIndex >= 0

canUndoOf(h) == h.currentIndex > 0

canRedoOf(h) == h.currentIndex < Len(h.states) - 1

\* Mutant: the cleanup evicts only while the memory is above the ceiling.
RECURSIVE ForceCleanupResult_WhenOverCeiling(_, _)
ForceCleanupResult_WhenOverCeiling(h, minStatesToKeep) ==
  IF Len(h.states) > minStatesToKeep /\ h.memoryUsage > maxMemoryUsage
  THEN ForceCleanupResult_WhenOverCeiling(ShiftOldest(h), minStatesToKeep)
  ELSE h

RECURSIVE ForceCleanupResult(_, _)
ForceCleanupResult(h, minStatesToKeep) ==
  IF Len(h.states) > minStatesToKeep
  THEN ForceCleanupResult(ShiftOldest(h), minStatesToKeep)
  ELSE h

---------------------------------------------------------------------------
(* Colours and pixel buffers (class FloodFillEngine) *)

\* DrawingConfig.DEFAULTS.FILL_TOLERANCE, the default of every tolerance
\* parameter.
FILL_TOLERANCE == 0

\* The tolerance DrawingEngine.performFill compares and fills with.
PERFORM_FILL_TOLERANCE == 1

\* DrawingConfig.DEFAULTS.NEIGHBOUR_OFFSETS, in the order of the code:
\* right, left, down, up.
NEIGHBOUR_OFFSETS ==
  << [x |-> 1, y |-> 0], [x |-> -1, y |-> 0], [x |-> 0, y |-> 1], [x |-> 0, y |-> -1] >>

\* A colour object {r, g, b, a} and a pixel object {x, y}.
Colour(r, g, b, a) == [r |-> r, g |-> g, b |-> b, a |-> a]
Pixel(x, y) == [x |-> x, y |-> y]

\* Math.abs on integers.
Abs(v) == IF v < 0 THEN -v ELSE v

\* colorsEqual testing only whether the first colour is the transparent one.
colorsEqual_OneSidedAlpha(color1, color2, tolerance) ==
  IF color1.a = 0 /\ color2.a = 0 THEN TRUE
  ELSE IF color1.a = 0 /\ color2.a # 0 THEN FALSE
  ELSE /\ Abs(color1.r - color2.r) <= tolerance
       /\ Abs(color1.g - color2.g) <= tolerance
       /\ Abs(color1.b - color2.b) <= tolerance
       /\ Abs(color1.a - color2.a) <= tolerance

\* colorsEqual without its two rules for fully transparent colours.
colorsEqual_ChannelsOnly(color1, color2, tolerance) ==
  /\ Abs(color1.r - color2.r) <= tolerance
  /\ Abs(color1.g - color2.g) <= tolerance
  /\ Abs(color1.b - color2.b) <= tolerance
  /\ Abs(color1.a - color2.a) <= tolerance

\* FloodFillEngine.colorsEqual(color1, color2, tolerance).
colorsEqual(color1, color2, tolerance) ==
  IF color1.a = 0 /\ color2.a = 0 THEN TRUE
  ELSE IF (color1.a = 0) # (color2.a = 0) THEN FALSE
  ELSE /\ Abs(color1.r - color2.r) <= tolerance
       /\ Abs(color1.g - color2.g) <= tolerance
       /\ Abs(color1.b - color2.b) <= tolerance
       /\ Abs(color1.a - color2.a) <= tolerance

\* A store into a Uint8ClampedArray keeps the value within 0..255.
Uint8Clamped(v) == Min(255, Max(0, v))

\* isPixelOutOfBounds accepting the column width and the row height.
isPixelOutOfBounds_Inclusive(pixel, width, height) ==
  pixel.x < 0 \/ pixel.x > width \/ pixel.y < 0 \/ pixel.y > height

isPixelOutOfBounds(pixel, width, height) ==
  pixel.x < 0 \/ pixel.x >= width \/ pixel.y < 0 \/ pixel.y >= height

\* Mutant: the number of the pixel taken for the index of its first byte.
PixelIndex_Unscaled(pixel, width) == pixel.y * width + pixel.x

\* The index of a pixel's first byte: (pixel.y * width + pixel.x) * 4.
PixelIndex(pixel, width) == (pixel.y * width + pixel.x) * 4

\* A read of a typed array: outside it undefined, which is no channel value
\* and within no tolerance of one (here -1000).
ByteAt(d, index) == IF index \in DOMAIN d THEN d[index] ELSE -1000

getPixelColorFromImageData(pixel, d, width) ==
  LET index == PixelIndex(pixel, width)
  IN  Colour(ByteAt(d, index), ByteAt(d, index + 1),
             ByteAt(d, index + 2), ByteAt(d, index + 3))

\* A store outside a typed array does nothing.
setPixelColor(pixel, color, d, width) ==
  LET index == PixelIndex(pixel, width)
  IN  [i \in DOMAIN d |->
         IF i = index THEN Uint8Clamped(color.r)
         ELSE IF i = index + 1 THEN Uint8Clamped(color.g)
         ELSE IF i = index + 2 THEN Uint8Clamped(color.b)
         ELSE IF i = index + 3 THEN Uint8Clamped(color.a)
         ELSE d[i]]

\* shouldFillPixel accepting every pixel of the buffer, whatever its colour.
shouldFillPixel_BoundsOnly(pixel, width, height, d, targetColor, tolerance) ==
  ~isPixelOutOfBounds(pixel, width, height)

shouldFillPixel(pixel, width, height, d, targetColor, tolerance) ==
  IF isPixelOutOfBounds(pixel, width, height)
  THEN FALSE
  ELSE colorsEqual(getPixelColorFromImageData(pixel, d, width), targetColor, tolerance)

fillPixel(pixel, d, width, fillColor) == setPixelColor(pixel, fillColor, d, width)

\* The indices getPixelColorFromImageData reads, data[index] to
\* data[index + 3], which are those setPixelColor stores to.
PixelAccess(pixel, width) ==
  { PixelIndex(pixel, width) + k : k \in 0..3 }

\* The indices one iteration of processFillStack's loop reads or stores to
\* for the pixel it popped: none when isPixelOutOfBounds returns first,
\* else those getPixelColorFromImageData reads and, when the colour
\* matches, those setPixelColor stores to.
AccessOf(pixel, width, height, d, targetColor, tolerance) ==
  IF isPixelOutOfBounds(pixel, width, height)
  THEN {}
  ELSE PixelAccess(pixel, width) \cup
         (IF shouldFillPixel(pixel, width, height, d, targetColor, tolerance)
          THEN PixelAccess(pixel, width)
          ELSE {})

\* addNeighboringPixelsToStack pushing the four diagonal neighbours too.
addNeighboringPixelsToStack_Diagonals(pixel, stk) ==
  stk \o << Pixel(pixel.x + 1, pixel.y), Pixel(pixel.x - 1, pixel.y),
            Pixel(pixel.x, pixel.y + 1), Pixel(pixel.x, pixel.y - 1),
            Pixel(pixel.x + 1, pixel.y + 1), Pixel(pixel.x - 1, pixel.y - 1),
            Pixel(pixel.x + 1, pixel.y - 1), Pixel(pixel.x - 1, pixel.y + 1) >>

\* The stack after NEIGHBOUR_OFFSETS.forEach(offset => stack.push(...)).
addNeighboringPixelsToStack(pixel, stk) ==
  stk \o [k \in 1..Len(NEIGHBOUR_OFFSETS) |->
            Pixel(pixel.x + NEIGHBOUR_OFFSETS[k].x, pixel.y + NEIGHBOUR_OFFSETS[k].y)]

BoundingBox(minX, maxX, minY, maxY) ==
  [minX |-> minX, maxX |-> maxX, minY |-> minY, maxY |-> maxY]

\* The bounding box update that never moves the lower edge.
UpdateBoundingBox_NoMaxY(bb, pixel) ==
  BoundingBox(Min(bb.minX, pixel.x), Max(bb.maxX, pixel.x),
              Min(bb.minY, pixel.y), bb.maxY)

\* processFillStack's four assignments to the bounding box.
UpdateBoundingBox(bb, pixel) ==
  BoundingBox(Min(bb.minX, pixel.x), Max(bb.maxX, pixel.x),
              Min(bb.minY, pixel.y), Max(bb.maxY, pixel.y))

\* The arguments of performFloodFill but imageData.
FillArgs(startX, startY, targetColor, fillColor, canvasWidth, canvasHeight, tolerance) ==
  [startX |-> startX, startY |-> startY, targetColor |-> targetColor,
   fillColor |-> fillColor, canvasWidth |-> canvasWidth,
   canvasHeight |-> canvasHeight, tolerance |-> tolerance]

\* The buffers, seeds, colours and tolerances the fill is run on.
FillDims == { <<2, 2>>, <<3, 1>>, <<1, 3>> }

PixelColours ==
  { Colour(0, 0, 0, 0), Colour(200, 0, 0, 255), Colour(201, 0, 0, 255) }

FillColours == PixelColours \cup { Colour(9, 9, 9, 0) }

Tolerances == { FILL_TOLERANCE, PERFORM_FILL_TOLERANCE }

Channel(color, k) ==
  IF k = 0 THEN color.r ELSE IF k = 1 THEN color.g ELSE IF k = 2 THEN color.b ELSE color.a

\* The Uint8ClampedArray of an ImageData of width * height pixels.
Buffers(width, height) ==
  { [i \in 0..(width * height * 4 - 1) |-> Channel(px[i \div 4], i % 4)] :
      px \in [0..(width * height - 1) -> PixelColours] }

\* Seeds inside the buffer and up to one pixel outside it.
Seeds(width, height) == { Pixel(x, y) : x \in -1..width, y \in -1..height }

NoWrites(width, height) == [n \in 0..(width * height - 1) |-> 0]

---------------------------------------------------------------------------
(* The state machine *)

Self == History(states, currentIndex, memoryUsage)

canUndo == canUndoOf(Self)
canRedo == canRedoOf(Self)
isEmpty == Len(states) = 0

Call(op, img, keep, ret, evMem, evCnt) ==
  [op |-> op, img |-> img, keep |-> keep, ret |-> ret,
   evictedForMemory |-> evMem, evictedForCount |-> evCnt]

\* The record of a step that called no method of the history.
NoCall == Call("none", NoImage, 0, RetVoid, 0, 0)

\* The fields of the object hold the history h.
Install_Now(h) ==
  /\ states = h.states
  /\ currentIndex = h.currentIndex
  /\ memoryUsage = h.memoryUsage

Install(h) ==
  /\ states' = h.states
  /\ currentIndex' = h.currentIndex
  /\ memoryUsage' = h.memoryUsage

\* new HistoryManager(max).
HistoryManagerNew(max) ==
  /\ states = <<>>
  /\ currentIndex = -1
  /\ memoryUsage = 0
  /\ maxStates = max
  /\ nextId = 1
  /\ lastCall = Call("new", NoImage, 0, RetVoid, 0, 0)

\* No fill has been asked for.
NoFillArgs == FillArgs(0, 0, Colour(0, 0, 0, 0), Colour(0, 0, 0, 0), 0, 0, FILL_TOLERANCE)

FillIdle ==
  /\ fillArgs = NoFillArgs
  /\ data = <<>>
  /\ stack = <<>>
  /\ boundingBox = BoundingBox(0, 0, 0, 0)
  /\ fillPc = "idle"
  /\ dataAtCall = <<>>
  /\ writes = <<>>
  /\ fillCalls = 0

\* No colours have been compared.
ColorCheck(color1, color2, tolerance, called, result) ==
  [color1 |-> color1, color2 |-> color2, tolerance |-> tolerance,
   called |-> called, result |-> result]

ColorsIdle ==
  colorCheck = ColorCheck(Colour(0, 0, 0, 0), Colour(0, 0, 0, 0), FILL_TOLERANCE, FALSE, FALSE)

\* The canvases are empty, no stroke is being drawn, no save is pending.
BLANK == 0

\* stateSaveTimeout = null.
NoTimer == 0

\* No fill was made by the handler.
NoFill ==
  [targetColor |-> Colour(0, 0, 0, 0), fillColor |-> Colour(0, 0, 0, 0),
   inCanvas |-> FALSE, tolerance |-> 0, engineCalled |-> FALSE, overwritten |-> FALSE]

\* The sizes the canvas may have, in device pixels: the viewport's.
AppCanvasDims == { <<4096, 3200>>, <<8192, 6400>> }

AppIdleAt(dim) ==
  /\ visible = BLANK
  /\ offscreen = BLANK
  /\ offscreenDim = dim
  /\ drawing = FALSE
  /\ pendingStateSave = FALSE
  /\ stateSaveTimeout = NoTimer
  /\ timers = {}
  /\ currentTool = "pen"
  /\ hidden = FALSE
  /\ memoryCleanupTimeout = FALSE
  /\ undoBtnDisabled = TRUE
  /\ redoBtnDisabled = TRUE
  /\ lastUndoState = FALSE
  /\ lastRedoState = FALSE
  /\ lastHandler = [name |-> "init", pending |-> FALSE, fill |-> NoFill]

AppIdle == AppIdleAt(<<4096, 3200>>)

Init ==
  /\ \E max \in 1..MaxStatesArg : HistoryManagerNew(max)
  /\ FillIdle
  /\ ColorsIdle
  /\ AppIdle

saveState(imageData) ==
  LET stateSize == calculateImageDataSize(imageData)
      pruned    == PruneRedoBranch(Self)
      trimmed   == TrimForMemory(pruned, stateSize)
      pushed    == PushState(trimmed, imageData)
      result    == SaveStateResult(Self, maxStates, imageData)
  IN  /\ Install(result)
      /\ lastCall' = Call("saveState", imageData, 0, RetVoid,
                          Len(pruned.states) - Len(trimmed.states),
                          Len(pushed.states) - Len(result.states))

SaveState ==
  /\ nextId <= MaxSaves
  /\ \E dim \in CanvasDims : saveState(ImageData(nextId, dim))
  /\ nextId' = nextId + 1
  /\ UNCHANGED maxStates

\* Mutant: an undo that pops the state it leaves, and its bytes.
undo_Pop ==
  /\ IF canUndo
     THEN /\ currentIndex' = currentIndex - 1
          /\ states' = SubSeq(states, 1, Len(states) - 1)
          /\ memoryUsage' = memoryUsage - calculateImageDataSize(states[Len(states)])
          /\ lastCall' = Call("undo", NoImage, 0, ReadSlot(states, currentIndex - 1), 0, 0)
     ELSE /\ currentIndex' = currentIndex
          /\ lastCall' = Call("undo", NoImage, 0, RetNull, 0, 0)
          /\ UNCHANGED <<states, memoryUsage>>
  /\ UNCHANGED <<maxStates, nextId>>

undo ==
  /\ IF canUndo
     THEN /\ currentIndex' = currentIndex - 1
          /\ lastCall' = Call("undo", NoImage, 0, ReadSlot(states, currentIndex - 1), 0, 0)
     ELSE /\ currentIndex' = currentIndex
          /\ lastCall' = Call("undo", NoImage, 0, RetNull, 0, 0)
  /\ UNCHANGED <<states, memoryUsage, maxStates, nextId>>

redo ==
  /\ IF canRedo
     THEN /\ currentIndex' = currentIndex + 1
          /\ lastCall' = Call("redo", NoImage, 0, ReadSlot(states, currentIndex + 1), 0, 0)
     ELSE /\ currentIndex' = currentIndex
          /\ lastCall' = Call("redo", NoImage, 0, RetNull, 0, 0)
  /\ UNCHANGED <<states, memoryUsage, maxStates, nextId>>

clearHistory ==
  /\ states' = <<>>
  /\ currentIndex' = -1
  /\ memoryUsage' = 0
  /\ lastCall' = Call("clearHistory", NoImage, 0, RetVoid, 0, 0)
  /\ UNCHANGED <<maxStates, nextId>>

forceCleanup(minStatesToKeep) ==
  LET result == ForceCleanupResult(Self, minStatesToKeep)
  IN  /\ Install(result)
      /\ lastCall' = Call("forceCleanup", NoImage, minStatesToKeep,
                          RetNumber(Len(states) - Len(result.states)), 0, 0)
      /\ UNCHANGED <<maxStates, nextId>>

\* forceCleanup is called with its default, or by the memory manager with
\* FORCE_CLEANUP_STATE_COUNT.
ForceCleanupArgs == {DEFAULT_MIN_STATES_TO_KEEP, FORCE_CLEANUP_STATE_COUNT}

ForceCleanup == \E minStatesToKeep \in ForceCleanupArgs : forceCleanup(minStatesToKeep)

\* The history is used on its own: no fill runs, no colours are compared.
Next ==
  \/ SaveState /\ UNCHANGED notHistoryVars
  \/ undo /\ UNCHANGED notHistoryVars
  \/ redo /\ UNCHANGED notHistoryVars
  \/ ForceCleanup /\ UNCHANGED notHistoryVars
  \/ clearHistory /\ UNCHANGED notHistoryVars

Spec == Init /\ [][Next]_vars

\* The calls a drawing session makes on its own: no cleanup, no teardown.
NextSaveUndoRedo ==
  \/ SaveState /\ UNCHANGED notHistoryVars
  \/ undo /\ UNCHANGED notHistoryVars
  \/ redo /\ UNCHANGED notHistoryVars

SpecSaveUndoRedo == Init /\ [][NextSaveUndoRedo]_vars

\* The sizes of the canvas in a session that fills the history by count: a
\* small canvas (3 MiB), which may have grown (50 MiB, 200 MiB).
CountDims == { <<1024, 768>>, <<4096, 3200>>, <<8192, 6400>> }

\* Values of maxStates above MIN_STATES_THRESHOLD.
CountMaxStates == { MIN_STATES_THRESHOLD + 1, MIN_STATES_THRESHOLD + 2 }

\* A HistoryManager of max states after max - 1 snapshots of the small
\* canvas were saved: the edits -(max - 1) .. -1.
InitCount ==
  /\ \E max \in CountMaxStates :
       /\ states = [i \in 1..(max - 1) |-> ImageData(i - max, <<1024, 768>>)]
       /\ currentIndex = max - 2
       /\ memoryUsage = (max - 1) * calculateImageDataSize(ImageData(0, <<1024, 768>>))
       /\ maxStates = max
       /\ lastCall = Call("saveState", ImageData(-1, <<1024, 768>>), 0, RetVoid, 0, 0)
  /\ nextId = 1
  /\ FillIdle
  /\ ColorsIdle
  /\ AppIdle

SaveStateCount ==
  /\ nextId <= MaxCountSaves
  /\ \E dim \in CountDims : saveState(ImageData(nextId, dim))
  /\ nextId' = nextId + 1
  /\ UNCHANGED maxStates

NextCount ==
  \/ SaveStateCount /\ UNCHANGED notHistoryVars
  \/ undo /\ UNCHANGED notHistoryVars
  \/ redo /\ UNCHANGED notHistoryVars

SpecCount == InitCount /\ [][NextCount]_vars

---------------------------------------------------------------------------
(* The flood fill, one iteration of processFillStack's loop at a time *)

\* A caller holds a buffer and the arguments of a fill.
InitFill ==
  /\ HistoryManagerNew(MaxStatesArg)
  /\ ColorsIdle
  /\ AppIdle
  /\ \E dim \in FillDims :
       /\ data \in Buffers(dim[1], dim[2])
       /\ \E seed \in Seeds(dim[1], dim[2]), targetColor \in FillColours,
             fillColor \in FillColours, tolerance \in Tolerances :
            fillArgs = FillArgs(seed.x, seed.y, targetColor, fillColor,
                                dim[1], dim[2], tolerance)
       /\ dataAtCall = data
       /\ writes = NoWrites(dim[1], dim[2])
  /\ stack = <<>>
  /\ boundingBox = BoundingBox(0, 0, 0, 0)
  /\ fillPc = "idle"
  /\ fillCalls = 0

\* performFloodFill going on with the bounding box of the call before it.
performFloodFill_KeepBoundingBox ==
  /\ fillPc \in {"idle", "returned"}
  /\ fillCalls < MaxFillCalls
  /\ boundingBox' = IF fillPc = "idle"
                    THEN BoundingBox(fillArgs.startX, fillArgs.startX,
                                     fillArgs.startY, fillArgs.startY)
                    ELSE boundingBox
  /\ stack' = << Pixel(fillArgs.startX, fillArgs.startY) >>
  /\ fillPc' = "running"
  /\ fillCalls' = fillCalls + 1
  /\ dataAtCall' = data
  /\ writes' = NoWrites(fillArgs.canvasWidth, fillArgs.canvasHeight)
  /\ UNCHANGED <<fillArgs, data>>
  /\ UNCHANGED notFillVars

\* performFloodFill up to the loop: the bounding box is the seed point and
\* createFillArea makes the stack of the seed alone.
performFloodFill ==
  /\ fillPc \in {"idle", "returned"}
  /\ fillCalls < MaxFillCalls
  /\ boundingBox' = BoundingBox(fillArgs.startX, fillArgs.startX,
                                fillArgs.startY, fillArgs.startY)
  /\ stack' = << Pixel(fillArgs.startX, fillArgs.startY) >>
  /\ fillPc' = "running"
  /\ fillCalls' = fillCalls + 1
  /\ dataAtCall' = data
  /\ writes' = NoWrites(fillArgs.canvasWidth, fillArgs.canvasHeight)
  /\ UNCHANGED <<fillArgs, data>>
  /\ UNCHANGED notFillVars

\* One iteration of the loop of processFillStack.
processFillStack ==
  /\ fillPc = "running"
  /\ stack # <<>>
  /\ LET currentPixel == stack[Len(stack)]
         popped       == SubSeq(stack, 1, Len(stack) - 1)
         width        == fillArgs.canvasWidth
         height       == fillArgs.canvasHeight
         pixelNo      == currentPixel.y * width + currentPixel.x
     IN  IF ~shouldFillPixel(currentPixel, width, height, data,
                             fillArgs.targetColor, fillArgs.tolerance)
         THEN /\ stack' = popped
              /\ UNCHANGED <<data, boundingBox, writes>>
         ELSE /\ pixelNo \in DOMAIN writes => writes[pixelNo] < MaxWrites
              /\ data' = fillPixel(currentPixel, data, width, fillArgs.fillColor)
              /\ boundingBox' = UpdateBoundingBox(boundingBox, currentPixel)
              /\ stack' = addNeighboringPixelsToStack(currentPixel, popped)
              /\ writes' = [n \in DOMAIN writes |->
                              IF n = pixelNo THEN writes[n] + 1 ELSE writes[n]]
  /\ UNCHANGED <<fillArgs, fillPc, dataAtCall, fillCalls>>
  /\ UNCHANGED notFillVars

\* The stack is empty: processFillStack, createFillArea and performFloodFill
\* return, the last with { imageData, boundingBox }.
returnFloodFill ==
  /\ fillPc = "running"
  /\ stack = <<>>
  /\ fillPc' = "returned"
  /\ UNCHANGED <<fillArgs, data, stack, boundingBox, dataAtCall, writes, fillCalls>>
  /\ UNCHANGED notFillVars

NextFill ==
  \/ performFloodFill
  \/ processFillStack
  \/ returnFloodFill

SpecFill == InitFill /\ [][NextFill]_vars

\* The loop and the return are steps of one running call: none waits.
SpecFillFair == SpecFill /\ WF_vars(processFillStack) /\ WF_vars(returnFloodFill)

---------------------------------------------------------------------------
(* colorsEqual called once on two colours and a tolerance *)

ChannelValues == {0, 1, 128, 255}

ToleranceValues == {0, 1, 254, 255}

Colours == { Colour(r, g, b, a) : r \in ChannelValues, g \in ChannelValues,
                                  b \in ChannelValues, a \in ChannelValues }

InitColors ==
  /\ HistoryManagerNew(MaxStatesArg)
  /\ FillIdle
  /\ AppIdle
  /\ \E color1 \in Colours, color2 \in Colours, tolerance \in ToleranceValues :
       colorCheck = ColorCheck(color1, color2, tolerance, FALSE, FALSE)

CallColorsEqual ==
  /\ ~colorCheck.called
  /\ colorCheck' = [colorCheck EXCEPT
                      !.called = TRUE,
                      !.result = colorsEqual(colorCheck.color1, colorCheck.color2,
                                             colorCheck.tolerance)]
  /\ UNCHANGED notColorVars

NextColors == CallColorsEqual

SpecColors == InitColors /\ [][NextColors]_vars

---------------------------------------------------------------------------
(* The application: DrawingApp's handlers and the StateManager *)

\* The content of an ImageData that is no copy but the offscreen canvas
\* itself.
LiveCanvas == -1000

\* What an ImageData holds.
ContentOf(img) == IF img.id = LiveCanvas THEN offscreen ELSE img.id

\* Mutant: the ImageData is the offscreen canvas itself.
SnapshotAt_Alias(content, dim) == ImageData(LiveCanvas, dim)

\* getImageData of the offscreen canvas of size dim holding the content: a
\* new ImageData with a copy of the pixels.
SnapshotAt(content, dim) == ImageData(content, dim)

Snapshot(content) == SnapshotAt(content, offscreenDim)

\* The history after the empty canvas and n strokes were saved on a canvas
\* of size dim: the strokes made before the behaviour begins are the edits
\* -n .. -1.
PriorStates(n, dim) ==
  [i \in 1..(n + 1) |-> SnapshotAt(IF i = 1 THEN BLANK ELSE i - n - 2, dim)]

\* new DrawingApp(): the constructor makes a HistoryManager of
\* HISTORY_MAX_STATES states and calls init(), whose resizeCanvas sizes the
\* canvases to the viewport and saves the empty canvas as the first state;
\* the pen is the tool, and updateUI() and updateHistoryButtonStates() have
\* set the buttons.  The behaviour begins there, or after PriorStrokes
\* strokes were then drawn on the smallest canvas and saved by the timer.
InitApp ==
  \E dim \in AppCanvasDims, n \in {0, PriorStrokes} :
    /\ n > 0 => dim = <<4096, 3200>>
    /\ Install_Now(History(PriorStates(n, dim), n,
                           (n + 1) * calculateImageDataSize(SnapshotAt(BLANK, dim))))
    /\ maxStates = HISTORY_MAX_STATES
    /\ nextId = 1
    /\ lastCall = Call("saveState", PriorStates(n, dim)[n + 1], 0, RetVoid, 0, 0)
    /\ visible = PriorStates(n, dim)[n + 1].id
    /\ offscreen = PriorStates(n, dim)[n + 1].id
    /\ offscreenDim = dim
    /\ drawing = FALSE
    /\ pendingStateSave = FALSE
    /\ stateSaveTimeout = NoTimer
    /\ timers = {}
    /\ currentTool = "pen"
    /\ hidden = FALSE
    /\ memoryCleanupTimeout = FALSE
    /\ undoBtnDisabled = ~(n > 0)
    /\ redoBtnDisabled = TRUE
    /\ lastUndoState = (n > 0)
    /\ lastRedoState = FALSE
    /\ lastHandler = [name |-> IF n = 0 THEN "init" ELSE "stateSaveTimeoutFires",
                      pending |-> n > 0, fill |-> NoFill]
    /\ FillIdle
    /\ ColorsIdle

\* A handler calls no method of the history.
noHistoryCall ==
  /\ lastCall' = NoCall
  /\ UNCHANGED <<states, currentIndex, memoryUsage, maxStates>>

\* The record of a handler that called no method of the history.
NoHandler == [name |-> "none", pending |-> FALSE, fill |-> NoFill]

\* The handler of the given name has run: it is recorded if it called a
\* method of the history.
Handled(name) ==
  lastHandler' = IF lastCall' = NoCall
                 THEN NoHandler
                 ELSE [name |-> name, pending |-> pendingStateSave, fill |-> NoFill]

\* StateManager.updateUI(), after the history has changed: a button is
\* written only if canUndo() or canRedo() differs from what the last
\* updateUI() saw.
updateUI ==
  /\ undoBtnDisabled' = IF lastUndoState # canUndo' THEN ~canUndo' ELSE undoBtnDisabled
  /\ redoBtnDisabled' = IF lastRedoState # canRedo' THEN ~canRedo' ELSE redoBtnDisabled
  /\ lastUndoState' = canUndo'
  /\ lastRedoState' = canRedo'

\* DrawingApp.updateHistoryButtonStates(), after the history has changed:
\* UIManager.updateHistoryButtonStates writes both buttons.
updateHistoryButtonStates ==
  /\ undoBtnDisabled' = ~canUndo'
  /\ redoBtnDisabled' = ~canRedo'

\* updateUI(), then updateHistoryButtonStates().
updateUIAndHistoryButtonStates ==
  /\ updateHistoryButtonStates
  /\ lastUndoState' = canUndo'
  /\ lastRedoState' = canRedo'

\* Mutant: the save is made and pendingStateSave is left as it was.
saveCanvasState_KeepPending(content, dim, fired) ==
  /\ timers' = timers \ {fired, stateSaveTimeout}
  /\ stateSaveTimeout' = NoTimer
  /\ pendingStateSave' = pendingStateSave
  /\ offscreen' = content
  /\ saveState(SnapshotAt(content, dim))
  /\ UNCHANGED maxStates

\* StateManager.saveCanvasStateNow() up to its call of updateUI(), when the
\* visible canvas shows content and the offscreen canvas has size dim, called
\* by the timer fired (by no timer: NoTimer): the timer of stateSaveTimeout
\* is cleared, the visible canvas is copied to the offscreen one and that
\* one's ImageData is saved.
saveCanvasState(content, dim, fired) ==
  /\ timers' = timers \ {fired, stateSaveTimeout}
  /\ stateSaveTimeout' = NoTimer
  /\ pendingStateSave' = FALSE
  /\ offscreen' = content
  /\ saveState(SnapshotAt(content, dim))
  /\ UNCHANGED maxStates

\* StateManager.saveCanvasStateNow().
saveCanvasStateNowAt(content, dim, fired) ==
  /\ saveCanvasState(content, dim, fired)
  /\ updateUI

saveCanvasStateNow(content) == saveCanvasStateNowAt(content, offscreenDim, NoTimer)

\* ensureStateSaved() if it dropped the pending save instead of making it.
ensureStateSaved_Drop ==
  /\ timers' = timers \ {stateSaveTimeout}
  /\ stateSaveTimeout' = NoTimer
  /\ pendingStateSave' = FALSE
  /\ noHistoryCall
  /\ UNCHANGED <<offscreen, buttonVars>>

\* StateManager.ensureStateSaved(): a pending save is made at once.
ensureStateSaved ==
  IF pendingStateSave
  THEN saveCanvasStateNow(visible)
  ELSE /\ noHistoryCall
       /\ UNCHANGED <<timerVars, offscreen, buttonVars>>

\* Mutant: the timer is left running.
clearPendingStateSaves_KeepTimer ==
  /\ timers' = timers
  /\ stateSaveTimeout' = NoTimer
  /\ pendingStateSave' = FALSE

\* StateManager.clearPendingStateSaves().
clearPendingStateSaves ==
  /\ timers' = timers \ {stateSaveTimeout}
  /\ stateSaveTimeout' = NoTimer
  /\ pendingStateSave' = FALSE

\* setTimeout's result: the id of a new timer, which no running timer has.
NewTimer(running) == CHOOSE t \in 1..(Cardinality(running) + 1) : t \notin running

\* Mutant: the timer of stateSaveTimeout is left running.
scheduleStateSave_NoClear ==
  /\ pendingStateSave' = TRUE
  /\ stateSaveTimeout' = NewTimer(timers \cup {stateSaveTimeout})
  /\ timers' = timers \cup {NewTimer(timers \cup {stateSaveTimeout})}

\* StateManager.scheduleStateSave(false): the timer of stateSaveTimeout is
\* cleared and a new one, of another id, is started.
scheduleStateSave ==
  /\ pendingStateSave' = TRUE
  /\ stateSaveTimeout' = NewTimer(timers \cup {stateSaveTimeout})
  /\ timers' = (timers \ {stateSaveTimeout}) \cup {NewTimer(timers \cup {stateSaveTimeout})}

\* StateManager.restoreCanvasState(state), when the history call that has
\* just been made returned a state.
restoreCanvasState ==
  IF lastCall'.ret.kind = "state"
  THEN /\ offscreen' = ContentOf(lastCall'.ret.img)
       /\ visible' = ContentOf(lastCall'.ret.img)
  ELSE UNCHANGED <<visible, offscreen>>

\* DrawingApp.handleDrawStart, from handlePointerDown with the pen.
handleDrawStart ==
  /\ ~hidden
  /\ currentTool = "pen"
  /\ nextId <= MaxEdits
  /\ drawing' = TRUE
  /\ nextId' = nextId + 1
  /\ UNCHANGED <<canvasVars, timerVars, pageVars, buttonVars>>
  /\ noHistoryCall
  /\ UNCHANGED notAppVars
  /\ Handled("handleDrawStart")

\* DrawingApp.handleDrawMove while drawing: drawLine paints on the visible
\* canvas.
handleDrawMove ==
  /\ ~hidden
  /\ drawing
  /\ nextId <= MaxEdits
  /\ visible' = nextId
  /\ nextId' = nextId + 1
  /\ UNCHANGED <<offscreen, offscreenDim, drawing, timerVars, pageVars, buttonVars>>
  /\ noHistoryCall
  /\ UNCHANGED notAppVars
  /\ Handled("handleDrawMove")

\* DrawingApp.handleDrawEnd while drawing: scheduleStateSave(false) arms
\* the timer anew, and updateHistoryButtonStates() writes the buttons.
handleDrawEnd ==
  /\ ~hidden
  /\ drawing
  /\ drawing' = FALSE
  /\ scheduleStateSave
  /\ noHistoryCall
  /\ UNCHANGED <<nextId, notAppVars>>
  /\ updateHistoryButtonStates
  /\ UNCHANGED <<canvasVars, pageVars, lastUndoState, lastRedoState>>
  /\ Handled("handleDrawEnd")

\* The running timer fired of scheduleStateSave fires: saveCanvasStateNow().
timeoutFires(fired) ==
  /\ fired \in timers
  /\ saveCanvasStateNowAt(visible, offscreenDim, fired)
  /\ UNCHANGED <<visible, offscreenDim, drawing, pageVars, nextId, notAppVars>>
  /\ Handled("stateSaveTimeoutFires")

\* A timer of scheduleStateSave fires.
stateSaveTimeoutFires == \E fired \in timers : timeoutFires(fired)

\* DrawingApp.handleClear: clearCanvas() empties both canvases, then
\* scheduleStateSave(true) saves at once, then updateHistoryButtonStates().
handleClear ==
  /\ ~hidden
  /\ nextId <= MaxEdits
  /\ visible' = BLANK
  /\ saveCanvasState(BLANK, offscreenDim, NoTimer)
  /\ updateUIAndHistoryButtonStates
  /\ nextId' = nextId + 1
  /\ UNCHANGED <<offscreenDim, drawing, pageVars, notAppVars>>
  /\ Handled("handleClear")

\* DrawingApp.handleUndo: StateManager.performUndo(), whose updateUI() runs
\* if undo() returned a state, then updateHistoryButtonStates().
handleUndo ==
  /\ ~hidden
  /\ clearPendingStateSaves
  /\ undo
  /\ restoreCanvasState
  /\ updateHistoryButtonStates
  /\ IF lastCall'.ret.kind = "state"
     THEN lastUndoState' = canUndo' /\ lastRedoState' = canRedo'
     ELSE UNCHANGED <<lastUndoState, lastRedoState>>
  /\ UNCHANGED <<offscreenDim, drawing, pageVars, notAppVars>>
  /\ Handled("handleUndo")

\* DrawingApp.handleRedo: StateManager.performRedo(), then
\* updateHistoryButtonStates().
handleRedo ==
  /\ ~hidden
  /\ clearPendingStateSaves
  /\ redo
  /\ restoreCanvasState
  /\ updateHistoryButtonStates
  /\ IF lastCall'.ret.kind = "state"
     THEN lastUndoState' = canUndo' /\ lastRedoState' = canRedo'
     ELSE UNCHANGED <<lastUndoState, lastRedoState>>
  /\ UNCHANGED <<offscreenDim, drawing, pageVars, notAppVars>>
  /\ Handled("handleRedo")

\* ToolManager.selectPenTool(): ensureStateSaved(), then the tool changes.
selectPenTool ==
  /\ ~hidden
  /\ ensureStateSaved
  /\ currentTool' = "pen"
  /\ UNCHANGED <<visible, offscreenDim, drawing, hidden, memoryCleanupTimeout,
                 nextId, notAppVars>>
  /\ Handled("selectPenTool")

\* ToolManager.selectFillTool().
selectFillTool ==
  /\ ~hidden
  /\ ensureStateSaved
  /\ currentTool' = "fill"
  /\ UNCHANGED <<visible, offscreenDim, drawing, hidden, memoryCleanupTimeout,
                 nextId, notAppVars>>
  /\ Handled("selectFillTool")

\* DrawingApp.handleSave: ensureStateSaved(), then the offscreen canvas is
\* exported as a PNG file.
handleSave ==
  /\ ~hidden
  /\ ensureStateSaved
  /\ UNCHANGED <<visible, offscreenDim, drawing, pageVars, nextId, notAppVars>>
  /\ Handled("handleSave")

\* CanvasManager.resizeCanvas() to a viewport of size dim: the offscreen
\* canvas only grows and keeps its content.
GrownTo(dim) ==
  <<Max(offscreenDim[1], dim[1]), Max(offscreenDim[2], dim[2])>>

\* Mutant: initializeHistoryIfEmpty() without its test of isEmpty().
resizeCanvas_AlwaysInitialize ==
  \E dim \in AppCanvasDims :
    /\ offscreenDim' = GrownTo(dim)
    /\ IF pendingStateSave
       THEN /\ saveCanvasStateNow(visible)
            /\ UNCHANGED visible
       ELSE /\ visible' = offscreen
            /\ saveCanvasStateNowAt(offscreen, GrownTo(dim), NoTimer)
    /\ UNCHANGED <<drawing, pageVars, nextId, notAppVars>>
    /\ Handled("resizeCanvas")

\* DrawingApp.resizeCanvas when the viewport has got size dim:
\* ensureStateSaved(), then the visible canvas is redrawn from the offscreen
\* one, then initializeHistoryIfEmpty() saves at once if the history holds
\* nothing.
resizeCanvas ==
  \E dim \in AppCanvasDims :
    /\ offscreenDim' = GrownTo(dim)
    /\ IF pendingStateSave
       THEN /\ saveCanvasStateNow(visible)
            /\ UNCHANGED visible
       ELSE /\ visible' = offscreen
            /\ IF isEmpty
               THEN saveCanvasStateNowAt(offscreen, GrownTo(dim), NoTimer)
               ELSE /\ noHistoryCall
                    /\ UNCHANGED <<timerVars, offscreen, buttonVars>>
    /\ UNCHANGED <<drawing, pageVars, nextId, notAppVars>>
    /\ Handled("resizeCanvas")

\* LifecycleManager.handleVisibilityChange when the page has become hidden:
\* ensureStateSaved(), then MemoryManager.scheduleCleanup() arms its timer
\* anew.
pageHidden ==
  /\ ~hidden
  /\ hidden' = TRUE
  /\ ensureStateSaved
  /\ memoryCleanupTimeout' = TRUE
  /\ UNCHANGED <<visible, offscreenDim, drawing, currentTool, nextId, notAppVars>>
  /\ Handled("pageHidden")

\* Mutant: the page becomes visible and the cleanup timer is left running.
pageVisible_KeepTimer ==
  /\ hidden
  /\ hidden' = FALSE
  /\ memoryCleanupTimeout' = memoryCleanupTimeout
  /\ noHistoryCall
  /\ UNCHANGED <<nextId, notAppVars>>
  /\ updateUI
  /\ UNCHANGED <<canvasVars, drawing, timerVars, currentTool>>
  /\ Handled("pageVisible")

\* LifecycleManager.handleVisibilityChange when the page has become visible:
\* MemoryManager.cancelScheduledCleanup(), then StateManager.updateUI().
pageVisible ==
  /\ hidden
  /\ hidden' = FALSE
  /\ memoryCleanupTimeout' = FALSE
  /\ noHistoryCall
  /\ UNCHANGED <<nextId, notAppVars>>
  /\ updateUI
  /\ UNCHANGED <<canvasVars, drawing, timerVars, currentTool>>
  /\ Handled("pageVisible")

\* What getPixelColor may read at the seed: a transparent pixel, and opaque
\* ones of which one is within 1 of black.
TargetColours == { Colour(0, 0, 0, 0), Colour(1, 1, 1, 255), Colour(255, 255, 255, 255) }

\* hexToRgba of the colour picker's value: an opaque colour.
PickerColours == { Colour(0, 0, 0, 255), Colour(255, 255, 255, 255) }

\* Mutant: the colours are compared with the default tolerance.
shouldSkipFill_DefaultTolerance(targetColor, fillColor, tolerance) ==
  colorsEqual(targetColor, fillColor, FILL_TOLERANCE)

\* DrawingEngine.shouldSkipFill.
shouldSkipFill(targetColor, fillColor, tolerance) ==
  colorsEqual(targetColor, fillColor, tolerance)

\* The fill of a handleFill: what performFill sampled and passed on, whether
\* the seed was on the canvas, whether performFloodFill was called and
\* whether it overwrote a pixel.
Fill(targetColor, fillColor, inCanvas, tolerance, engineCalled, overwritten) ==
  [targetColor |-> targetColor, fillColor |-> fillColor, inCanvas |-> inCanvas,
   tolerance |-> tolerance, engineCalled |-> engineCalled, overwritten |-> overwritten]

\* DrawingEngine.performFillOperation: performFloodFill with the sampled
\* target colour overwrites the seed's pixel and its region if the seed is
\* on the canvas and no pixel otherwise; the region is put on the visible
\* canvas, and scheduleStateSave(true) saves at once.
performFillOperation(targetColor, fillColor, inCanvas, tolerance) ==
  /\ visible' = IF inCanvas THEN nextId ELSE visible
  /\ saveCanvasStateNow(IF inCanvas THEN nextId ELSE visible)
  /\ nextId' = nextId + 1
  /\ lastHandler' = [name |-> "handleFill", pending |-> pendingStateSave,
                     fill |-> Fill(targetColor, fillColor, inCanvas, tolerance,
                                   TRUE, inCanvas)]

\* DrawingApp.handleFill, from handlePointerDown with the fill tool:
\* DrawingEngine.performFill samples the colour at the seed, which is
\* transparent off the canvas and on an empty canvas, and skips the fill if
\* that colour equals the picker's within the tolerance of 1.
handleFill ==
  \E targetColor \in TargetColours, fillColor \in PickerColours, inCanvas \in BOOLEAN :
    /\ ~hidden
    /\ currentTool = "fill"
    /\ nextId <= MaxEdits
    /\ (~inCanvas \/ visible = BLANK) => targetColor = Colour(0, 0, 0, 0)
    /\ IF shouldSkipFill(targetColor, fillColor, PERFORM_FILL_TOLERANCE)
       THEN /\ noHistoryCall
            /\ UNCHANGED <<canvasVars, timerVars, buttonVars, nextId>>
            /\ lastHandler' = [name |-> "handleFill", pending |-> pendingStateSave,
                               fill |-> Fill(targetColor, fillColor, inCanvas,
                                             PERFORM_FILL_TOLERANCE, FALSE, FALSE)]
       ELSE /\ performFillOperation(targetColor, fillColor, inCanvas,
                                    PERFORM_FILL_TOLERANCE)
            /\ UNCHANGED offscreenDim
    /\ UNCHANGED <<drawing, pageVars, notAppVars>>

\* DrawingConfig.DEFAULTS.MEMORY_CLEANUP_THRESHOLD_PERCENT.
MEMORY_CLEANUP_THRESHOLD_PERCENT == 50

\* HistoryManager.getMemoryUsagePercentage():
\* Math.round((memoryUsage / maxMemoryUsage) * 100), the quotient rounded to
\* the nearest whole number, halves upwards.
getMemoryUsagePercentage ==
  (memoryUsage + maxMemoryUsage \div 200) \div (maxMemoryUsage \div 100)

\* The timer of MemoryManager.scheduleCleanup fires: performCleanupIfNeeded()
\* calls forceCleanup if the page is hidden and the history uses more than
\* the threshold of its memory.  No button is written.
performCleanupIfNeeded ==
  /\ memoryCleanupTimeout
  /\ memoryCleanupTimeout' = FALSE
  /\ IF hidden /\ getMemoryUsagePercentage > MEMORY_CLEANUP_THRESHOLD_PERCENT
     THEN forceCleanup(FORCE_CLEANUP_STATE_COUNT)
     ELSE noHistoryCall /\ UNCHANGED nextId
  /\ UNCHANGED <<canvasVars, drawing, timerVars, currentTool, hidden, buttonVars,
                 notAppVars>>
  /\ Handled("performCleanupIfNeeded")

NextApp ==
  \/ handleDrawStart
  \/ handleDrawMove
  \/ handleDrawEnd
  \/ stateSaveTimeoutFires
  \/ handleClear
  \/ handleUndo
  \/ handleRedo
  \/ selectPenTool
  \/ selectFillTool
  \/ handleSave
  \/ resizeCanvas
  \/ pageHidden
  \/ pageVisible
  \/ handleFill
  \/ performCleanupIfNeeded

SpecApp == InitApp /\ [][NextApp]_vars

\* A session on the empty canvas in which the first stroke has been drawn
\* and has ended: the visible canvas shows it (edit -1), its debounced save
\* is pending, and the history holds the empty canvas only.
InitPending ==
  \E dim \in AppCanvasDims :
    /\ Install_Now(History(PriorStates(0, dim), 0,
                           calculateImageDataSize(SnapshotAt(BLANK, dim))))
    /\ maxStates = HISTORY_MAX_STATES
    /\ nextId = 1
    /\ lastCall = NoCall
    /\ visible = -1
    /\ offscreen = BLANK
    /\ offscreenDim = dim
    /\ drawing = FALSE
    /\ pendingStateSave = TRUE
    /\ stateSaveTimeout = 1
    /\ timers = {1}
    /\ currentTool = "pen"
    /\ hidden = FALSE
    /\ memoryCleanupTimeout = FALSE
    /\ undoBtnDisabled = TRUE
    /\ redoBtnDisabled = TRUE
    /\ lastUndoState = FALSE
    /\ lastRedoState = FALSE
    /\ lastHandler = NoHandler
    /\ FillIdle
    /\ ColorsIdle

SpecPending == InitPending /\ [][NextApp]_vars

\* DrawingApp.handleDrawStart where presses are not counted as edits, so
\* that stroke can follow stroke without end.
handleDrawStartAgain ==
  /\ ~hidden
  /\ currentTool = "pen"
  /\ drawing' = TRUE
  /\ UNCHANGED <<canvasVars, timerVars, pageVars, buttonVars, nextId>>
  /\ noHistoryCall
  /\ UNCHANGED notAppVars
  /\ Handled("handleDrawStart")

\* DrawingApp.handleDrawEnd where the stroke end that schedules a save
\* while none is pending is the counted edit, and the one that only arms
\* the timer anew is not: the saves made stay within MaxEdits.
handleDrawEndAgain ==
  /\ ~hidden
  /\ drawing
  /\ pendingStateSave \/ nextId <= MaxEdits
  /\ drawing' = FALSE
  /\ scheduleStateSave
  /\ noHistoryCall
  /\ nextId' = IF pendingStateSave THEN nextId ELSE nextId + 1
  /\ UNCHANGED notAppVars
  /\ updateHistoryButtonStates
  /\ UNCHANGED <<canvasVars, pageVars, lastUndoState, lastRedoState>>
  /\ Handled("handleDrawEnd")

NextDebounce ==
  \/ handleDrawStartAgain
  \/ handleDrawMove
  \/ handleDrawEndAgain
  \/ stateSaveTimeoutFires
  \/ handleClear
  \/ handleUndo
  \/ handleRedo
  \/ selectPenTool
  \/ selectFillTool
  \/ handleSave
  \/ resizeCanvas
  \/ pageHidden
  \/ pageVisible
  \/ handleFill
  \/ performCleanupIfNeeded

\* The ids setTimeout gives while at most one timer is running.
SaveTimers == {1, 2}

\* The session of InitPending whose offscreen canvas is as large as every
\* viewport: no resize makes it grow.
InitDebounce ==
  /\ InitPending
  /\ \A dim \in AppCanvasDims : GrownTo(dim) = offscreenDim

\* A timer that stays armed for STATE_SAVE_DELAY_MS fires; one that is
\* cleared before that does not, and no handler has to run at all.
SpecDebounce ==
  /\ InitDebounce
  /\ [][NextDebounce]_vars
  /\ \A t \in SaveTimers : WF_vars(timeoutFires(t))

\* document.createElement("canvas"): the size of a new canvas element.
NewCanvasDim == <<300, 150>>

\* new DrawingApp() up to the await in the resizeCanvas() of init(): the
\* history is empty, the offscreen canvas is new, and
\* updateHistoryButtonStates() has disabled both buttons.
InitStart ==
  /\ Install_Now(History(<<>>, -1, 0))
  /\ maxStates = HISTORY_MAX_STATES
  /\ nextId = 1
  /\ lastCall = NoCall
  /\ visible = BLANK
  /\ offscreen = BLANK
  /\ offscreenDim = NewCanvasDim
  /\ drawing = FALSE
  /\ pendingStateSave = FALSE
  /\ stateSaveTimeout = NoTimer
  /\ timers = {}
  /\ currentTool = "pen"
  /\ hidden = FALSE
  /\ memoryCleanupTimeout = FALSE
  /\ undoBtnDisabled = TRUE
  /\ redoBtnDisabled = TRUE
  /\ lastUndoState = FALSE
  /\ lastRedoState = FALSE
  /\ lastHandler = NoHandler
  /\ FillIdle
  /\ ColorsIdle

\* The resizeCanvas() of init() completes before an event of the page is
\* handled: it is the first step, and the events follow it.
NextStart ==
  \/ isEmpty /\ resizeCanvas
  \/ ~isEmpty /\ NextApp

SpecStart == InitStart /\ [][NextStart]_vars

---------------------------------------------------------------------------
(* The application when a canvas call throws: DrawingApp.handleError and   *)
(* attemptErrorRecovery                                                    *)

\* Mutant: the throw comes before pendingStateSave is reset.
saveCanvasStateNowThrows_BeforeReset(content) ==
  /\ pendingStateSave' = pendingStateSave
  /\ offscreen' = offscreen
  /\ noHistoryCall
  /\ UNCHANGED <<lastUndoState, lastRedoState>>

\* StateManager.saveCanvasStateNow() when copyVisibleToOffscreenCanvas or
\* getImageData throws, up to the throw: the timer of stateSaveTimeout is
\* cleared, no save is pending, the offscreen canvas has got the copy of the
\* content or not, and saveState and updateUI() are not reached.  The timers
\* left running are what the recovery is given.
saveCanvasStateNowThrows(content) ==
  /\ pendingStateSave' = FALSE
  /\ offscreen' \in {offscreen, content}
  /\ noHistoryCall
  /\ UNCHANGED <<lastUndoState, lastRedoState>>

\* attemptErrorRecovery("state-management") when stateSaveTimeout is timeout
\* and the timers running are running: a timer that is set is cleared and
\* stateSaveTimeout becomes null; pendingStateSave is not written.
recoverStateManagement(timeout, running) ==
  /\ timers' = IF timeout # NoTimer THEN running \ {timeout} ELSE running
  /\ stateSaveTimeout' = NoTimer

\* attemptErrorRecovery("tool-switching") after saveCanvasStateNow() threw:
\* ensureStateSaved() finds no save pending, the timer having been cleared.
recoverToolSwitching ==
  /\ timers' = timers \ {stateSaveTimeout}
  /\ stateSaveTimeout' = NoTimer

\* handleClear when the immediate save throws: DrawingApp.scheduleStateSave
\* catches the error and recovers for "state-management", and handleClear
\* goes on to updateHistoryButtonStates().
handleClearThrows ==
  /\ ~hidden
  /\ visible' = BLANK
  /\ saveCanvasStateNowThrows(BLANK)
  /\ recoverStateManagement(NoTimer, timers \ {stateSaveTimeout})
  /\ updateHistoryButtonStates
  /\ UNCHANGED <<offscreenDim, drawing, pageVars, nextId, notAppVars>>
  /\ Handled("handleClear")

\* handleDrawMove when drawLine throws before it paints: the recovery for
\* "drawing" ends the stroke with handleDrawEnd().
handleDrawMoveThrows ==
  /\ drawing
  /\ handleDrawEnd

\* selectPenTool or selectFillTool when the pending save throws: the tool is
\* not changed, and the recovery for "tool-switching" calls
\* ensureStateSaved() again.
selectToolThrows ==
  /\ ~hidden
  /\ pendingStateSave
  /\ saveCanvasStateNowThrows(visible)
  /\ recoverToolSwitching
  /\ UNCHANGED <<visible, offscreenDim, drawing, pageVars, undoBtnDisabled,
                 redoBtnDisabled, nextId, notAppVars>>
  /\ Handled("selectTool")

\* DrawingApp.resizeCanvas when the pending save throws: the recovery for
\* "canvas-resize" calls CanvasManager.resizeCanvas(), which sizes the
\* canvases to the viewport and redraws the visible canvas from the
\* offscreen one; initializeHistoryIfEmpty() is not reached.
resizeCanvasThrows ==
  \E dim \in AppCanvasDims :
    /\ pendingStateSave
    /\ saveCanvasStateNowThrows(visible)
    /\ timers' = timers \ {stateSaveTimeout}
    /\ stateSaveTimeout' = NoTimer
    /\ offscreenDim' = GrownTo(dim)
    /\ visible' = offscreen'
    /\ UNCHANGED <<drawing, pageVars, undoBtnDisabled, redoBtnDisabled, nextId,
                   notAppVars>>
    /\ Handled("resizeCanvas")

\* A session begun on the empty canvas.
InitRecovery == InitApp /\ Len(states) = 1

NextRecovery ==
  \/ NextApp
  \/ handleClearThrows
  \/ handleDrawMoveThrows
  \/ selectToolThrows
  \/ resizeCanvasThrows

SpecRecovery == InitRecovery /\ [][NextRecovery]_vars

---------------------------------------------------------------------------
(* Properties *)

Front(st) == SubSeq(st, 1, Len(st) - 1)

Stored(st, img) == \E i \in 1..Len(st) : st[i] = img

AllLargerThanCeiling(st) ==
  \A i \in 1..Len(st) : calculateImageDataSize(st[i]) > maxMemoryUsage

\* C1: after any sequence of saveState, undo, redo, forceCleanup and
\* clearHistory calls, either states is empty and currentIndex = -1, or
\* 0 <= currentIndex < states.length.
C1_IndexInRange ==
  \/ states = <<>> /\ currentIndex = -1
  \/ 0 <= currentIndex /\ currentIndex < Len(states)

\* C2: saveState(s) discards every state after currentIndex, keeps the states
\* up to currentIndex in their order (apart from k head evictions) and appends
\* s: on return states[currentIndex] is s, s is the last state and canRedo()
\* is false.
C2_SaveStateAppends ==
  [][lastCall'.op = "saveState" =>
       /\ InRange(states', currentIndex')
       /\ StateAt(states', currentIndex') = lastCall'.img
       /\ currentIndex' = Len(states') - 1
       /\ ~canRedo'
       /\ \E k \in 0..Len(states) :
            Front(states') = SubSeq(states, k + 1, currentIndex + 1)]_vars

\* C3: undo() with canUndo() true (currentIndex > 0) lowers currentIndex by
\* exactly 1 and returns the state now at states[currentIndex]; otherwise it
\* returns null and changes neither currentIndex, states nor memoryUsage.
C3_Undo ==
  [][lastCall'.op = "undo" =>
       IF currentIndex > 0
       THEN /\ currentIndex' = currentIndex - 1
            /\ InRange(states', currentIndex')
            /\ lastCall'.ret = RetState(StateAt(states', currentIndex'))
            /\ UNCHANGED <<states, memoryUsage>>
       ELSE /\ lastCall'.ret = RetNull
            /\ UNCHANGED <<currentIndex, states, memoryUsage>>]_vars

\* C3 witness: an undo that moved back and returned a stored state.
C3_Witness ==
  /\ lastCall.op = "undo"
  /\ lastCall.ret.kind = "state"
  /\ canRedo

\* C4: redo() with canRedo() true (currentIndex < states.length - 1) raises
\* currentIndex by exactly 1 and returns the state now at
\* states[currentIndex]; otherwise it returns null and changes neither
\* currentIndex, states nor memoryUsage.
C4_Redo ==
  [][lastCall'.op = "redo" =>
       IF currentIndex < Len(states) - 1
       THEN /\ currentIndex' = currentIndex + 1
            /\ InRange(states', currentIndex')
            /\ lastCall'.ret = RetState(StateAt(states', currentIndex'))
            /\ UNCHANGED <<states, memoryUsage>>
       ELSE /\ lastCall'.ret = RetNull
            /\ UNCHANGED <<currentIndex, states, memoryUsage>>]_vars

\* C5: canUndo() is true exactly when currentIndex > 0 and canRedo() exactly
\* when currentIndex < states.length - 1, and an undo() (redo()) called when
\* canUndo() (canRedo()) is true returns a snapshot stored in states, never
\* null or an undefined slot.
C5_CanUndoRedoSound ==
  [][/\ canUndo <=> currentIndex > 0
     /\ canRedo <=> currentIndex < Len(states) - 1
     /\ (lastCall'.op = "undo" /\ canUndo) =>
          (lastCall'.ret.kind = "state" /\ Stored(states', lastCall'.ret.img))
     /\ (lastCall'.op = "redo" /\ canRedo) =>
          (lastCall'.ret.kind = "state" /\ Stored(states', lastCall'.ret.img))]_vars

\* C6 as stated: after any sequence of saveState, undo and redo calls the
\* byte sizes of the stored states sum to at most the memory ceiling.
C6_SumWithinCeiling == SumSizes(states) <= maxMemoryUsage

\* C6 as amended: the sum is within the ceiling whenever more than 3 states
\* are stored (trimOldStates keeps 2 states whatever their size, and the new
\* snapshot is appended to them).
C6_SumWithinCeilingAboveFloor ==
  Len(states) > 3 => SumSizes(states) <= maxMemoryUsage

\* C6 witness: a save evicted for memory and left more than 3 states.
C6_Witness ==
  /\ lastCall.op = "saveState"
  /\ lastCall.evictedForMemory > 0
  /\ Len(states) > 3

\* C7 as stated: with every snapshot larger than the memory ceiling (and the
\* default maxStates, here any maxStates >= 3), each saveState from the second
\* on leaves exactly 2 states.
C7_KeepsExactlyTwo ==
  [][(/\ lastCall'.op = "saveState"
      /\ maxStates >= 3
      /\ calculateImageDataSize(lastCall'.img) > maxMemoryUsage
      /\ AllLargerThanCeiling(states)
      /\ currentIndex = Len(states) - 1
      /\ Len(states) >= 1) =>
       Len(states') = 2]_vars

\* C7 as amended: with every snapshot larger than the memory ceiling and
\* maxStates >= 3, the k-th saveState in a row leaves min(k, 3) states: the 2
\* that trimOldStates keeps and the snapshot just appended.
C7_KeepsThree ==
  [][(/\ lastCall'.op = "saveState"
      /\ maxStates >= 3
      /\ calculateImageDataSize(lastCall'.img) > maxMemoryUsage
      /\ AllLargerThanCeiling(states)
      /\ currentIndex = Len(states) - 1) =>
       /\ Len(states') = Min(Len(states) + 1, 3)
       /\ Len(states) <= 3]_vars

\* C7 witness: a save of an oversized snapshot onto three oversized ones.
C7_Witness ==
  /\ lastCall.op = "saveState"
  /\ lastCall.evictedForMemory = 1
  /\ Len(states) = 3
  /\ AllLargerThanCeiling(states)

\* C8: with maxStates >= 1, states.length <= maxStates after any sequence of
\* operations.
C8_CountWithinMaxStates == Len(states) <= maxStates

\* C8 witness: a save hit the count cap and evicted the oldest state.
C8_Witness ==
  /\ lastCall.op = "saveState"
  /\ lastCall.evictedForCount = 1
  /\ Len(states) = maxStates

\* C9: when saveState evicts k states from the head (for the memory cap or the
\* count cap), currentIndex ends k lower than a save without eviction leaves
\* it, the remaining states keep their order, and the current snapshot stays
\* the current one: the snapshot that was current before the memory eviction
\* sits right before the new one, and the new one is current after the count
\* eviction.
C9_EvictionKeepsIndex ==
  [][(/\ lastCall'.op = "saveState"
      /\ lastCall'.evictedForMemory + lastCall'.evictedForCount > 0) =>
       LET k == lastCall'.evictedForMemory + lastCall'.evictedForCount
       IN  /\ currentIndex' = currentIndex + 1 - k
           /\ Front(states') = SubSeq(states, k + 1, k + Len(states') - 1)
           /\ states'[Len(states')] = lastCall'.img
           /\ (lastCall'.evictedForMemory > 0 /\ InRange(states, currentIndex)) =>
                /\ InRange(states', currentIndex' - 1)
                /\ StateAt(states', currentIndex' - 1) = StateAt(states, currentIndex)
           /\ currentIndex >= -1 =>
                /\ InRange(states', currentIndex')
                /\ StateAt(states', currentIndex') = lastCall'.img]_vars

\* C9 witness: one save evicted two states from the head, and undo is still
\* possible.
C9_Witness ==
  /\ lastCall.op = "saveState"
  /\ lastCall.evictedForMemory >= 2
  /\ canUndo

\* C10: the memory eviction of saveState removes states from the head only,
\* stops as soon as memory total + new size <= ceiling, goes on until then or
\* until 2 states are left, and never leaves fewer than 2 states before the
\* new snapshot is appended.
C10_MemoryEviction ==
  [][lastCall'.op = "saveState" =>
       LET p    == PruneRedoBranch(Self)
           n    == Len(p.states)
           size == calculateImageDataSize(lastCall'.img)
           k    == lastCall'.evictedForMemory
           c    == lastCall'.evictedForCount
           memAfter(j) == p.memoryUsage - SumSizes(SubSeq(p.states, 1, j))
       IN  /\ k >= 0 /\ k <= n
           /\ states' = SubSeq(Append(p.states, lastCall'.img), k + c + 1, n + 1)
           /\ k > 0 => n - k >= 2
           /\ k > 0 => memAfter(k - 1) + size > maxMemoryUsage
           /\ n - k > 2 => memAfter(k) + size <= maxMemoryUsage]_vars

\* C10 witness: the memory eviction stopped with more than 2 states left,
\* because the new snapshot then fitted.
C10_Witness ==
  /\ lastCall.op = "saveState"
  /\ lastCall.evictedForMemory > 0
  /\ lastCall.evictedForCount = 0
  /\ Len(states) > 3

\* C11: forceCleanup(minToKeep) on a history of n states leaves the newest
\* min(n, minToKeep) states in their order, returns max(0, n - minToKeep) and
\* lowers currentIndex by that number, whatever the memory usage is.
C11_ForceCleanup ==
  [][lastCall'.op = "forceCleanup" =>
       LET n       == Len(states)
           keep    == lastCall'.keep
           removed == Max(0, n - keep)
       IN  /\ Len(states') = Min(n, keep)
           /\ states' = SubSeq(states, removed + 1, n)
           /\ lastCall'.ret = RetNumber(removed)
           /\ currentIndex' = currentIndex - removed
           /\ memoryUsage' = memoryUsage - SumSizes(SubSeq(states, 1, removed))]_vars

\* C11 witness: a cleanup removed two or more states and left minToKeep.
C11_Witness ==
  /\ lastCall.op = "forceCleanup"
  /\ lastCall.ret.n >= 2
  /\ Len(states) = lastCall.keep

\* C12: from a fresh history (maxStates >= 2, as with the default 50):
\* saveState(blank) gives isEmpty() false, currentIndex 0, canUndo() false;
\* saveState(strokeA) gives currentIndex 1, canUndo() true; undo() returns
\* blank with currentIndex 0; saveState(strokeB) gives [blank, strokeB],
\* currentIndex 1, canRedo() false, and strokeA is stored no more, so that no
\* later undo or redo returns it (they return stored states only).
C12_Scenario ==
  [][/\ (isEmpty /\ currentIndex = -1 /\ lastCall'.op = "saveState") =>
          (~isEmpty' /\ currentIndex' = 0 /\ ~canUndo' /\ states' = <<lastCall'.img>>)
     /\ (maxStates >= 2 /\ Len(states) = 1 /\ currentIndex = 0
           /\ lastCall'.op = "saveState") =>
          (currentIndex' = 1 /\ canUndo' /\ states' = <<states[1], lastCall'.img>>)
     /\ (Len(states) = 2 /\ currentIndex = 1 /\ lastCall'.op = "undo") =>
          (lastCall'.ret = RetState(states[1]) /\ currentIndex' = 0 /\ states' = states)
     /\ (maxStates >= 2 /\ Len(states) = 2 /\ currentIndex = 0
           /\ lastCall'.op = "saveState") =>
          /\ states' = <<states[1], lastCall'.img>>
          /\ currentIndex' = 1
          /\ ~canRedo'
          /\ ~Stored(states', states[2])
     /\ (lastCall'.op \in {"undo", "redo"} /\ lastCall'.ret.kind = "state") =>
          Stored(states', lastCall'.ret.img)
     /\ (lastCall'.op \in {"undo", "redo"}) => states' = states]_vars

\* C12 witness: the end of the scenario, blank and strokeB stored after
\* save, save, undo, save.
C12_Witness ==
  /\ lastCall.op = "saveState"
  /\ nextId = 4
  /\ Len(states) = 2
  /\ states[1].id = 1
  /\ states[2].id = 3
  /\ currentIndex = 1

---------------------------------------------------------------------------
(* Properties of the flood fill *)

\* The pixels of the buffer.
Pixels == { Pixel(x, y) : x \in 0..(fillArgs.canvasWidth - 1),
                          y \in 0..(fillArgs.canvasHeight - 1) }

Seed == Pixel(fillArgs.startX, fillArgs.startY)

PixelNo(p) == p.y * fillArgs.canvasWidth + p.x

\* The colour of pixel p in the buffer d, read byte by byte.
ColourIn(d, p) ==
  Colour(d[4 * PixelNo(p)], d[4 * PixelNo(p) + 1], d[4 * PixelNo(p) + 2], d[4 * PixelNo(p) + 3])

\* p matched targetColor within the tolerance when the running call began.
Matched(p) == colorsEqual(ColourIn(dataAtCall, p), fillArgs.targetColor, fillArgs.tolerance)

\* p and q share an edge; p and q share only a corner.
ShareEdge(p, q) == Abs(p.x - q.x) + Abs(p.y - q.y) = 1
ShareCorner(p, q) == Abs(p.x - q.x) = 1 /\ Abs(p.y - q.y) = 1

\* The least set holding S and every matching pixel sharing an edge with it.
RECURSIVE Closure(_)
Closure(S) ==
  LET T == S \cup { q \in Pixels : Matched(q) /\ \E p \in S : ShareEdge(p, q) }
  IN  IF T = S THEN S ELSE Closure(T)

\* The seed's region: the matching pixels joined to a matching seed by
\* up/down/left/right steps over matching pixels.
Region == IF Seed \in Pixels /\ Matched(Seed) THEN Closure({Seed}) ELSE {}

Overwritten == { p \in Pixels : writes[PixelNo(p)] > 0 }

FillMatchesTarget ==
  colorsEqual(fillArgs.fillColor, fillArgs.targetColor, fillArgs.tolerance)

\* C13: when performFloodFill returns from a call with a seed inside the
\* buffer and a fillColor that does not equal targetColor within the
\* tolerance, the pixels it overwrote are exactly the seed's region, each of
\* them now holds fillColor, and every other pixel holds what it held before
\* the call.
C13_FillsExactlyRegion ==
  (fillPc = "returned" /\ Seed \in Pixels /\ ~FillMatchesTarget) =>
    /\ Overwritten = Region
    /\ \A p \in Pixels :
         ColourIn(data, p) = IF p \in Region THEN fillArgs.fillColor
                             ELSE ColourIn(dataAtCall, p)

\* A returned fill whose region is left unfilled at a matching pixel that
\* touches it at a corner only.
C13_Witness ==
  /\ fillPc = "returned"
  /\ ~FillMatchesTarget
  /\ \E p \in Region, q \in Pixels \ Region :
       /\ ShareCorner(p, q)
       /\ Matched(q)
       /\ ColourIn(data, q) = ColourIn(dataAtCall, q)
       /\ ColourIn(data, q) # fillArgs.fillColor
       /\ ColourIn(data, p) = fillArgs.fillColor

InsideBox(bb, p) ==
  bb.minX <= p.x /\ p.x <= bb.maxX /\ bb.minY <= p.y /\ p.y <= bb.maxY

\* C14: when performFloodFill returns having overwritten at least one pixel,
\* its boundingBox is the least rectangle holding the overwritten pixels:
\* no pixel outside it was overwritten or changed, and each of its four
\* edges holds an overwritten pixel.
C14_BoundingBoxMinimal ==
  (fillPc = "returned" /\ Overwritten # {}) =>
    /\ \A p \in Pixels :
         ~InsideBox(boundingBox, p) =>
           p \notin Overwritten /\ ColourIn(data, p) = ColourIn(dataAtCall, p)
    /\ \E p \in Overwritten : p.x = boundingBox.minX
    /\ \E p \in Overwritten : p.x = boundingBox.maxX
    /\ \E p \in Overwritten : p.y = boundingBox.minY
    /\ \E p \in Overwritten : p.y = boundingBox.maxY

\* A returned fill of several pixels that grew downwards from the seed and
\* left a pixel of the buffer alone.
C14_Witness ==
  /\ fillPc = "returned"
  /\ Cardinality(Overwritten) >= 2
  /\ boundingBox.maxY > fillArgs.startY
  /\ \E p \in Pixels : p \notin Overwritten

\* C15, as a property of finite runs: no call of performFloodFill overwrites
\* a pixel twice.  A pixel is overwritten again only when it still matches
\* targetColor while holding fillColor and a filled neighbour has pushed it;
\* the two then match at every later pop and push each other for ever, so a
\* call that overwrites a pixel twice never empties its stack.
C15_NoPixelOverwrittenTwice == \A n \in DOMAIN writes : writes[n] <= 1

\* C15, amended: a call whose fillColor does not equal targetColor within
\* the tolerance overwrites no pixel twice and returns; and whatever the
\* colours, a call that has returned has overwritten no pixel twice.
C15_TerminatesUnlessFillMatches ==
  /\ [](~FillMatchesTarget => C15_NoPixelOverwrittenTwice)
  /\ [](fillPc = "returned" => C15_NoPixelOverwrittenTwice)
  /\ (fillPc = "running" /\ ~FillMatchesTarget) ~> (fillPc = "returned")

\* A call with differing colours that has filled a region of several pixels
\* and returned.
C15_Witness ==
  /\ fillPc = "returned"
  /\ ~FillMatchesTarget
  /\ Cardinality(Overwritten) >= 3

SeedPoint ==
  BoundingBox(fillArgs.startX, fillArgs.startX, fillArgs.startY, fillArgs.startY)

\* C16: a call of performFloodFill whose seed is outside the buffer ends its
\* loop after the one iteration that pops the seed, overwrites and changes
\* no pixel, and returns the seed point as its boundingBox.
C16_SeedOutOfRange ==
  (fillPc # "idle" /\ Seed \notin Pixels) =>
    /\ data = dataAtCall
    /\ Overwritten = {}
    /\ boundingBox = SeedPoint
    /\ stack \in { <<Seed>>, <<>> }

\* A returned call whose seed is one step outside the buffer, next to a
\* pixel that matches targetColor.
C16_Witness ==
  /\ fillPc = "returned"
  /\ Seed \notin Pixels
  /\ \E p \in Pixels : Matched(p) /\ ShareEdge(Seed, p)
  /\ ~FillMatchesTarget

\* C17: a call of performFloodFill on the buffer an earlier call with the
\* same seed, targetColor, fillColor and tolerance returned changes no
\* pixel, and returns the seed point as its boundingBox.
C17_SecondFillIsNoOp ==
  /\ fillCalls >= 2 => data = dataAtCall
  /\ (fillCalls >= 2 /\ fillPc = "returned") => boundingBox = SeedPoint

\* A second call that has returned on a buffer in which the first call
\* filled several pixels, the seed among them, with a colour that no buffer
\* holds before a fill.
C17_Witness ==
  /\ fillCalls = 2
  /\ fillPc = "returned"
  /\ fillArgs.fillColor \notin PixelColours
  /\ Seed \in Pixels
  /\ ColourIn(data, Seed) = fillArgs.fillColor
  /\ Cardinality({ p \in Pixels : ColourIn(data, p) = fillArgs.fillColor }) >= 2

---------------------------------------------------------------------------
(* Properties of colorsEqual *)

\* C18: the result of colorsEqual(color1, color2, tolerance) is the result
\* of colorsEqual(color2, color1, tolerance).
C18_ColorsEqualSymmetric ==
  colorCheck.called =>
    colorCheck.result =
      colorsEqual(colorCheck.color2, colorCheck.color1, colorCheck.tolerance)

\* A call that compared a transparent colour with an opaque one under the
\* widest tolerance.
C18_Witness ==
  /\ colorCheck.called
  /\ colorCheck.color1.a # 0
  /\ colorCheck.color2.a = 0
  /\ colorCheck.tolerance = 255
  /\ ~colorCheck.result

\* The largest of the four channel differences of two colours.
MaxChannelDifference(c1, c2) ==
  Max(Max(Abs(c1.r - c2.r), Abs(c1.g - c2.g)), Max(Abs(c1.b - c2.b), Abs(c1.a - c2.a)))

\* C19: colorsEqual is true when both colours have alpha 0, false when
\* exactly one has, and otherwise true exactly when no channel differs by
\* more than the tolerance.
C19_ColorsEqualCases ==
  colorCheck.called =>
    LET c1 == colorCheck.color1
        c2 == colorCheck.color2
        transparent == (IF c1.a = 0 THEN 1 ELSE 0) + (IF c2.a = 0 THEN 1 ELSE 0)
    IN  /\ transparent = 2 => colorCheck.result
        /\ transparent = 1 => ~colorCheck.result
        /\ transparent = 0 =>
             (colorCheck.result <=> MaxChannelDifference(c1, c2) <= colorCheck.tolerance)

\* A call that found two transparent colours of different RGB equal under
\* tolerance 0.
C19_Witness ==
  /\ colorCheck.called
  /\ colorCheck.color1.a = 0
  /\ colorCheck.color2.a = 0
  /\ colorCheck.color1.r # colorCheck.color2.r
  /\ colorCheck.tolerance = 0
  /\ colorCheck.result

---------------------------------------------------------------------------
(* Properties of the application *)

\* C20: when handleUndo or handleRedo runs while a debounced save is
\* pending, the history it leaves holds a state with what the visible
\* canvas showed when it began: the pending save was made before the index
\* moved and the canvas was restored.
C20_PendingSaveCompletedFirst ==
  [][(pendingStateSave /\ (handleUndo \/ handleRedo)) =>
       Stored(states', Snapshot(visible))]_vars

\* The handlers that begin with ensureStateSaved().
FlushingHandler ==
  selectPenTool \/ selectFillTool \/ resizeCanvas \/ handleSave \/ pageHidden

\* C21: when a tool is selected, the canvas is resized, the drawing is
\* exported or the page becomes hidden while a debounced save is pending,
\* the handler leaves a history that holds what the visible canvas showed
\* when it began, at the size the offscreen canvas had then; the offscreen
\* canvas, which is what is exported and what a resize redraws from, holds
\* that content too; and afterwards no save is pending and no timer runs.
C21_PendingSaveFlushed ==
  [][(pendingStateSave /\ FlushingHandler) =>
       /\ Stored(states', Snapshot(visible))
       /\ Len(states') > 0 /\ states'[Len(states')] = Snapshot(visible)
       /\ offscreen' = visible
       /\ visible' = visible
       /\ ~pendingStateSave'
       /\ stateSaveTimeout' = NoTimer
       /\ timers' = {}]_vars

\* The canvas was resized while a save of a stroke was pending and grew:
\* the stroke was saved at the size the canvas had before.
C21_Witness ==
  /\ lastHandler.name = "resizeCanvas"
  /\ lastHandler.pending
  /\ lastCall.op = "saveState"
  /\ lastCall.img.width < offscreenDim[1]
  /\ lastCall.img.id = visible
  /\ visible # BLANK
  /\ ~pendingStateSave

\* A call of saveState has changed the stored states.
SavesState == lastCall'.op = "saveState" /\ states' # states

IsSegment(s, t) ==
  \E a \in 1..(Len(t) + 1), b \in 0..Len(t) : s = SubSeq(t, a, b)

\* The last call of saveState has put one new state, img, behind states
\* that were stored before.
AddedOne(img) ==
  /\ Len(states') > 0
  /\ states'[Len(states')] = img
  /\ IsSegment(Front(states'), states)

\* C23: at most one save timer runs at any time, the one of
\* stateSaveTimeout; the end of a stroke while a save is pending adds no
\* state and replaces the running timer by one new timer; and the timer
\* that fires adds exactly one state, with what the canvas shows, and leaves
\* no timer running.
C23_OneTimerOneState ==
  [][/\ Cardinality(timers') <= 1
     /\ timers' = IF stateSaveTimeout' = NoTimer THEN {} ELSE {stateSaveTimeout'}
     /\ pendingStateSave' <=> timers' # {}
     /\ (pendingStateSave /\ handleDrawEnd) =>
          /\ stateSaveTimeout' # stateSaveTimeout
          /\ stateSaveTimeout \notin timers'
          /\ states' = states
     /\ stateSaveTimeoutFires =>
          /\ AddedOne(Snapshot(visible))
          /\ timers' = {}]_vars

\* A stroke ended while the save of another was pending: the timer then
\* running, 1, has been replaced by a new timer, 2, and no state was added
\* to the one the history began with.
C23_Witness ==
  /\ pendingStateSave
  /\ timers = {2}
  /\ stateSaveTimeout = 2
  /\ Len(states) = 1
  /\ ~drawing

\* C24: handleClear, and handleFill when the fill is not skipped, leave a
\* history with exactly one new state, which holds what the canvas shows
\* after the action and is the current one, and leave no save pending and
\* no timer running.
C24_ImmediateSave ==
  [][(handleClear \/ (handleFill /\ lastHandler'.fill.engineCalled)) =>
       /\ AddedOne(SnapshotAt(visible', offscreenDim'))
       /\ currentIndex' = Len(states') - 1
       /\ ~pendingStateSave'
       /\ timers' = {}]_vars

\* C25: whenever a step changes the stored states or the index, the
\* buttons it leaves show canUndo() and canRedo().
C25_ButtonsRefreshed ==
  [][(states' # states \/ currentIndex' # currentIndex) =>
       /\ undoBtnDisabled' = ~canUndo'
       /\ redoBtnDisabled' = ~canRedo']_vars

\* What an ImageData holds after the step.
ContentAfter(img) == IF img.id = LiveCanvas THEN offscreen' ELSE img.id

\* C26: no step changes what a state holds that is stored before and after
\* it; and a handleUndo or handleRedo whose call returned a state leaves
\* both canvases with what that state held.
C26_SnapshotsIndependent ==
  [][/\ \A i \in 1..Len(states) :
          \/ ContentAfter(states[i]) = ContentOf(states[i])
          \/ \A j \in 1..Len(states') : states'[j] # states[i]
     /\ ((handleUndo \/ handleRedo) /\ lastCall'.ret.kind = "state") =>
          /\ visible' = ContentOf(StateAt(states, currentIndex'))
          /\ offscreen' = ContentOf(StateAt(states, currentIndex'))
          /\ lastCall'.ret.img = StateAt(states, currentIndex')]_vars

\* After an edit was saved and another edit was made on the canvas, an undo
\* has returned the state before both, which the canvas now shows.
C26_Witness ==
  /\ lastHandler.name = "handleUndo"
  /\ lastCall.ret.kind = "state"
  /\ nextId > 1
  /\ Len(states) > currentIndex + 1
  /\ states[currentIndex + 2].id > 0
  /\ visible = states[currentIndex + 1].id
  /\ offscreen = visible

\* C27: handleFill calls performFloodFill exactly when the colour sampled
\* at the seed does not equal the fill colour within the tolerance it passes
\* to performFloodFill; when it does not call it, the canvases, the history
\* and the timers are left as they were.
C27_FillSkippedWhenEqual ==
  [][handleFill =>
       LET fill == lastHandler'.fill
       IN  /\ fill.engineCalled <=>
                ~colorsEqual(fill.targetColor, fill.fillColor, fill.tolerance)
           /\ ~fill.engineCalled =>
                /\ lastCall' = NoCall
                /\ UNCHANGED <<canvasVars, states, currentIndex, memoryUsage,
                               maxStates, timerVars, buttonVars>>]_vars

\* A fill was skipped whose target colour is not the fill colour but within
\* the tolerance of it.
C27_Witness ==
  /\ lastHandler.name = "handleFill"
  /\ ~lastHandler.fill.engineCalled
  /\ lastHandler.fill.targetColor # lastHandler.fill.fillColor
  /\ lastHandler.fill.inCanvas

\* C28: a handleFill whose performFloodFill overwrote no pixel adds no
\* state and leaves canUndo() and canRedo() as they were.
C28_EmptyFillIsNoOp ==
  [][(handleFill /\ lastHandler'.fill.engineCalled /\ ~lastHandler'.fill.overwritten) =>
       /\ states' = states
       /\ canUndo' = canUndo
       /\ canRedo' = canRedo]_vars

---------------------------------------------------------------------------
(* Properties of the count cap of saveState *)

\* The history saveState has before it enforces the count cap: the redo
\* branch spliced off, trimmed for memory, the snapshot appended.
Appended(imageData) ==
  PushState(TrimForMemory(PruneRedoBranch(Self), calculateImageDataSize(imageData)),
            imageData)

\* min(maxStates, max(10, floor(memory ceiling / bytes of the snapshot))).
EffectiveMaxFor(imageData) ==
  Min(maxStates,
      Max(10, (HISTORY_MAX_MEMORY_MB * BYTES_PER_MB)
                \div (imageData.width * imageData.height * 4)))

\* C29: a call of saveState whose snapshot makes the states more than
\* min(maxStates, max(10, floor(ceiling / size of the snapshot))) after the
\* append evicts exactly the oldest state and decrements currentIndex by 1;
\* any other call evicts nothing for the count cap.
C29_CountCapEvictsOne ==
  [][SaveStateCount =>
       LET imageData == lastCall'.img
           appended == Appended(imageData)
       IN  IF Len(appended.states) > EffectiveMaxFor(imageData)
           THEN /\ states' = Tail(appended.states)
                /\ currentIndex' = appended.currentIndex - 1
                /\ lastCall'.evictedForCount = 1
           ELSE /\ states' = appended.states
                /\ currentIndex' = appended.currentIndex
                /\ lastCall'.evictedForCount = 0]_vars

\* A snapshot of the grown canvas was saved on a history of more than 10
\* small states: the cap was 10 by the floor, not maxStates, and one state
\* was evicted for it, none for memory.
C29_Witness ==
  /\ lastCall.op = "saveState"
  /\ lastCall.evictedForCount = 1
  /\ lastCall.evictedForMemory = 0
  /\ EffectiveMaxFor(lastCall.img) = 10
  /\ maxStates > 10
  /\ currentIndex = Len(states) - 1

\* C30: after every call of saveState the history holds no more states than
\* the effective max-state count of the snapshot saved.
C30_LengthWithinEffectiveMax ==
  [][SaveStateCount => Len(states') <= EffectiveMaxFor(lastCall'.img)]_vars

---------------------------------------------------------------------------
(* Properties of the history as a whole *)

\* C31: in every state of the history, memoryUsage is the sum of the byte
\* sizes of the states stored, and it is not negative.
C31_MemoryUsageIsSum ==
  /\ memoryUsage = SumSizes(states)
  /\ memoryUsage >= 0

\* A save has evicted for memory and left several states, of different
\* sizes.
C31_Witness ==
  /\ lastCall.op = "saveState"
  /\ lastCall.evictedForMemory >= 1
  /\ Len(states) >= 2
  /\ \E i, j \in 1..Len(states) :
       calculateImageDataSize(states[i]) # calculateImageDataSize(states[j])
  /\ memoryUsage > 0

\* C32: a call of undo() or redo() leaves the stored states, their order,
\* memoryUsage and maxStates as they were, and moves currentIndex by at most
\* one.
C32_UndoRedoChangeOnlyIndex ==
  [][lastCall'.op \in {"undo", "redo"} =>
       /\ states' = states
       /\ memoryUsage' = memoryUsage
       /\ maxStates' = maxStates
       /\ currentIndex' \in {currentIndex - 1, currentIndex, currentIndex + 1}]_vars

\* A redo has moved the index from the first to the second of three or more
\* states.
C32_Witness ==
  /\ lastCall.op = "redo"
  /\ lastCall.ret.kind = "state"
  /\ currentIndex = 1
  /\ Len(states) >= 3

\* The last call was an undo() made where canUndo() was true, or a redo()
\* made where canRedo() was true: it did not return null.
Undone == lastCall.op = "undo" /\ lastCall.ret # RetNull
Redone == lastCall.op = "redo" /\ lastCall.ret # RetNull

\* C33: a redo() that follows an undo() made where canUndo() was true puts
\* currentIndex back by one, to where it was before the undo, and returns the
\* state that was current then, the one after the state the undo returned;
\* an undo() that follows a redo() made where canRedo() was true puts
\* currentIndex back by one, to where it was before the redo.
C33_UndoRedoRoundTrip ==
  [][/\ (Undone /\ lastCall'.op = "redo") =>
          /\ currentIndex' = currentIndex + 1
          /\ lastCall'.ret = ReadSlot(states, currentIndex + 1)
          /\ lastCall'.ret.kind = "state"
     /\ (Redone /\ lastCall'.op = "undo") =>
          currentIndex' = currentIndex - 1]_vars

---------------------------------------------------------------------------
(* Properties of the application when canvas calls throw *)

\* C34: in every state of the application, errors and their recoveries
\* included, pendingStateSave is true exactly when stateSaveTimeout is not
\* null, and then its timer is the one timer running.
C34_PendingIffTimerArmed ==
  /\ pendingStateSave <=> stateSaveTimeout # NoTimer
  /\ timers = IF stateSaveTimeout = NoTimer THEN {} ELSE {stateSaveTimeout}

\* The save of a clear has thrown and the error was recovered from: the
\* canvas is empty, the current state of the history still shows an edit,
\* and no save is pending.
C34_Witness ==
  /\ lastCall = NoCall
  /\ visible = BLANK
  /\ InRange(states, currentIndex)
  /\ StateAt(states, currentIndex).id # BLANK
  /\ ~pendingStateSave
  /\ stateSaveTimeout = NoTimer

---------------------------------------------------------------------------
(* Properties of the application, continued *)

\* C35: no step made while a stroke is being drawn calls saveState: no
\* snapshot is saved between handleDrawStart and handleDrawEnd.
C35_NoSaveWhileDrawing ==
  [][drawing => lastCall'.op # "saveState"]_vars

\* C36: a handleClear, or a handleFill that is not skipped, made while a
\* debounced save is pending leaves the history that two calls of saveState
\* leave: one with what the canvas showed before, the finished stroke, and
\* then one with what it shows after the clear or fill, which is the current
\* state.
C36_PendingStrokeSavedFirst ==
  [][(pendingStateSave /\ (handleClear \/ (handleFill /\ lastHandler'.fill.engineCalled))) =>
       LET stroke == SaveStateResult(Self, maxStates, Snapshot(visible))
           edit   == SaveStateResult(stroke, maxStates, SnapshotAt(visible', offscreenDim'))
       IN  /\ states' = edit.states
           /\ currentIndex' = edit.currentIndex]_vars

---------------------------------------------------------------------------
(* Properties of the debounced save under fair timers *)

\* C37 (as stated): a save that is pending does not stay pending for ever:
\* from every state where pendingStateSave is true a state is reached where
\* it is false.
C37_PendingNotForever == pendingStateSave ~> ~pendingStateSave

\* C37 (amended): a scheduled save is resolved or superseded: from every
\* state where a save is pending on timer t, a state is reached where no
\* save is pending (the timer fired or the save was flushed or cancelled)
\* or where the save is pending on another timer (a later stroke end
\* scheduled it anew).  Only timers that are running are ever armed.
C37_ScheduledSaveResolved ==
  /\ \A t \in SaveTimers :
       (pendingStateSave /\ stateSaveTimeout = t)
         ~> (~pendingStateSave \/ stateSaveTimeout \in SaveTimers \ {t})
  /\ [](timers \subseteq SaveTimers)
  /\ [](pendingStateSave => stateSaveTimeout \in timers)

\* The timer of the first stroke's pending save fired and the save was
\* made: the history holds the empty canvas and the stroke.
C37_Witness ==
  /\ lastHandler.name = "stateSaveTimeoutFires"
  /\ lastCall.op = "saveState"
  /\ ~pendingStateSave
  /\ timers = {}
  /\ nextId = 1
  /\ Len(states) = 2
  /\ ContentOf(states[2]) = -1

---------------------------------------------------------------------------
(* Properties of the application from its construction *)

\* C38: a history that holds a state is never empty after a step; the
\* resizeCanvas that finds the history empty saves the canvas as its one
\* state; a resizeCanvas that finds it not empty leaves the history alone
\* when no save is pending, and makes the pending save and no other when
\* one is.
C38_HistoryNeverEmptyAgain ==
  [][/\ ~isEmpty => ~isEmpty'
     /\ (isEmpty /\ resizeCanvas) =>
          /\ states' = <<SnapshotAt(BLANK, offscreenDim')>>
          /\ currentIndex' = 0
     /\ (~isEmpty /\ ~pendingStateSave /\ resizeCanvas) =>
          /\ UNCHANGED <<states, currentIndex, memoryUsage>>
          /\ lastCall' = NoCall
     /\ (~isEmpty /\ pendingStateSave /\ resizeCanvas) =>
          LET flushed == SaveStateResult(Self, maxStates, Snapshot(visible))
          IN  /\ states' = flushed.states
              /\ currentIndex' = flushed.currentIndex
    ]_vars

\* The first resizeCanvas has saved the empty canvas on the empty history,
\* a later one has grown the offscreen canvas, and the history still holds
\* that one state.
C38_Witness ==
  /\ Len(states) = 1
  /\ states[1] = SnapshotAt(BLANK, <<4096, 3200>>)
  /\ offscreenDim = <<8192, 6400>>
  /\ lastCall = NoCall
  /\ nextId = 1
  /\ ~hidden

---------------------------------------------------------------------------
(* Properties of the memory manager *)

\* C39: the cleanup timer runs only while the page is hidden: the step that
\* makes the page visible leaves no cleanup timer running.  A step that
\* calls forceCleanup is taken while the page is hidden and stays hidden,
\* with memoryUsage above MEMORY_CLEANUP_THRESHOLD_PERCENT hundredths of
\* maxMemoryUsage (which is a multiple of 100); it asks for FORCE_CLEANUP_STATE_COUNT states to be kept
\* and at most that many remain.
C39_CleanupOnlyWhileHidden ==
  /\ [](memoryCleanupTimeout => hidden)
  /\ [][/\ (hidden /\ ~hidden') => ~memoryCleanupTimeout'
        /\ lastCall'.op = "forceCleanup" =>
             /\ hidden /\ hidden'
             /\ memoryUsage > MEMORY_CLEANUP_THRESHOLD_PERCENT * (maxMemoryUsage \div 100)
             /\ lastCall'.keep = FORCE_CLEANUP_STATE_COUNT
             /\ Len(states') <= FORCE_CLEANUP_STATE_COUNT
       ]_vars

\* The cleanup timer fired on the hidden page and evicted states, and the
\* page is still hidden with no timer running.
C39_Witness ==
  /\ lastHandler.name = "performCleanupIfNeeded"
  /\ lastCall.op = "forceCleanup"
  /\ lastCall.ret.n >= 1
  /\ hidden
  /\ ~memoryCleanupTimeout
  /\ Len(states) = FORCE_CLEANUP_STATE_COUNT

---------------------------------------------------------------------------
(* Properties of the flood fill's use of the buffer *)

\* C40: the buffer keeps its width * height * 4 bytes.  An iteration of the
\* loop that reads or stores at all has popped a pixel with 0 <= x < width
\* and 0 <= y < height, and reads and stores at the four indices from
\* (y * width + x) * 4 only; the bytes of the buffer that the iteration
\* changes are among them.  When the call has returned, the buffer it was
\* given differs from what it was at the call only in bytes of pixels the
\* call overwrote.
C40_AccessWithinPixelBytes ==
  /\ [](DOMAIN data = 0..(fillArgs.canvasWidth * fillArgs.canvasHeight * 4 - 1))
  /\ [](fillPc = "returned" =>
          \A i \in DOMAIN data : data[i] # dataAtCall[i] => writes[i \div 4] > 0)
  /\ [][(fillPc = "running" /\ stack # <<>>) =>
          LET currentPixel == stack[Len(stack)]
              width        == fillArgs.canvasWidth
              height       == fillArgs.canvasHeight
              access       == AccessOf(currentPixel, width, height, data,
                                       fillArgs.targetColor, fillArgs.tolerance)
          IN  /\ access \subseteq DOMAIN data
              /\ access # {} =>
                   /\ currentPixel.x \in 0..(width - 1)
                   /\ currentPixel.y \in 0..(height - 1)
                   /\ access = { (currentPixel.y * width + currentPixel.x) * 4 + k :
                                   k \in 0..3 }
              /\ DOMAIN data' = DOMAIN data
              /\ \A i \in DOMAIN data : data'[i] # data[i] => i \in access
       ]_vars

\* A call has returned that overwrote two pixels or more and left a pixel
\* alone, after it popped pixels outside the buffer.
C40_Witness ==
  /\ fillPc = "returned"
  /\ Cardinality({ n \in DOMAIN writes : writes[n] > 0 }) >= 2
  /\ \E n \in DOMAIN writes :
       /\ writes[n] = 0
       /\ \A k \in 0..3 : data[n * 4 + k] = dataAtCall[n * 4 + k]
  /\ \E i \in DOMAIN data : data[i] # dataAtCall[i]

====
